---- MODULE Spec2Model ----
(***************************************************************************)
(* A model of the zosimos command IR (src/src/command.rs): the builders of *)
(* CommandBuffer, the descriptor and rectangle algebra they validate       *)
(* against, and the linker / monomorphizer CommandBuffer::link with the    *)
(* per-buffer lowering CommandBuffer::link_in.                             *)
(*                                                                         *)
(* Registers, generic variables, descriptor variables and function         *)
(* variables are the 0-based indices of the source; the op at register r   *)
(* is ops[r + 1].                                                          *)
(***************************************************************************)
EXTENDS Integers, Sequences, FiniteSets, TLC

VARIABLES
    cmd,        \* the CommandBuffer the builder calls act on
    limit,      \* the number of entries the client grows its buffer to
    last,       \* the builder call that returned last: name, arguments, result
    lk,         \* the state of one run of CommandBuffer::link
    surface     \* the editor's Surface: the image it presents and its Runtimes

vars == <<cmd, limit, last, lk, surface>>

(***************************************************************************)
(* Bounds of the model.                                                    *)
(***************************************************************************)
\* The number of entries (ops, descriptor variables, function declarations)
\* the builder calls of the client add to the command buffer it was handed.
MaxOps == 3

(***************************************************************************)
(* Texels and colors.  A texel is its sample bits and its sample parts;    *)
(* only the byte size of the bits and the components of the parts enter    *)
(* the validation rules.  A color is named; Rgb colors carry a whitepoint. *)
(***************************************************************************)
Texel(bits, parts) == [bits |-> bits, parts |-> parts]

RgbA8 == Texel("Int8x4", "RgbA")

Rg16 == Texel("Int16x2", "Rg")

Luma8 == Texel("Int8", "Luma")

\* SampleBits::bytes.
BitsBytes(bits) ==
    CASE bits = "Int8x4"  -> 4
      [] bits = "Int16x2" -> 4
      [] bits = "Int16x4" -> 8
      [] bits = "Int16"   -> 2
      [] bits = "Int8"    -> 1

TexelBytes(texel) == BitsBytes(texel.bits)

\* SampleParts::num_components.
NumComponents(parts) ==
    CASE parts = "RgbA" -> 4
      [] parts = "Rg"   -> 2
      [] OTHER          -> 1

\* The color channels a sample layout holds.
PartsChannels(parts) ==
    CASE parts = "RgbA" -> {"R", "G", "B", "Alpha"}
      [] parts = "Rg"   -> {"R", "G"}
      [] parts = "Luma" -> {"Luma"}
      [] OTHER          -> {parts}

\* Texel::channel_texel: the texel of one channel of this texel, if it has it.
ChannelTexel(texel, channel) ==
    IF channel \in PartsChannels(texel.parts)
    THEN [some |-> TRUE,
          texel |-> Texel(IF texel.bits \in {"Int16x2", "Int16x4"}
                          THEN "Int16" ELSE "Int8",
                          channel)]
    ELSE [some |-> FALSE]

\* ChannelPosition::new: the position in the linear vec4 of the color.
ChannelPosition(channel) ==
    CASE channel = "R" -> [some |-> TRUE, pos |-> 0]
      [] channel = "G" -> [some |-> TRUE, pos |-> 1]
      [] channel = "B" -> [some |-> TRUE, pos |-> 2]
      [] OTHER         -> [some |-> FALSE]

ColorIsRgb(color) == color \in {"Srgb", "SrgbD50"}

ColorWhitepoint(color) == IF color = "SrgbD50" THEN "D50" ELSE "D65"

\* Color::Rgb { whitepoint: target, ..color }.
RgbWithWhitepoint(target) == IF target = "D50" THEN "SrgbD50" ELSE "Srgb"

Chroma(texel, color) == [texel |-> texel, color |-> color]

(***************************************************************************)
(* Generic<T>: a concrete value or a reference to a generic variable.      *)
(***************************************************************************)
Concrete(val) == [g |-> "Concrete", c |-> val]

GenericOf(var) == [g |-> "Generic", var |-> var]

IsConcrete(x) == x.g = "Concrete"

\* PartialEq of Generic<T>.
GenericEq(a, b) ==
    /\ a.g = b.g
    /\ IF a.g = "Concrete" THEN a.c = b.c ELSE a.var = b.var

GenericDescriptor(size, chroma) == [size |-> size, chroma |-> chroma]

\* PartialEq of GenericDescriptor.
DescriptorEq(a, b) == GenericEq(a.size, b.size) /\ GenericEq(a.chroma, b.chroma)

(***************************************************************************)
(* Concrete descriptors.                                                   *)
(***************************************************************************)
ByteLayout(width, height, texel_stride, row_stride) ==
    [width |-> width, height |-> height,
     texel_stride |-> texel_stride, row_stride |-> row_stride]

\* Descriptor::with_texel: the packed layout of a texel matrix.
WithTexel(texel, color, w, h) ==
    [color |-> color, texel |-> texel,
     layout |-> ByteLayout(w, h, TexelBytes(texel), w * TexelBytes(texel))]

\* Descriptor::is_consistent: the layout agrees with the texel.
IsConsistent(desc) ==
    /\ desc.layout.texel_stride = TexelBytes(desc.texel)
    /\ desc.layout.row_stride >= desc.layout.width * desc.layout.texel_stride

DescriptorSize(desc) == <<desc.layout.width, desc.layout.height>>

\* impl From<Descriptor> for GenericDescriptor: the layout is dropped.
FromDescriptor(desc) ==
    GenericDescriptor(Concrete(DescriptorSize(desc)),
                      Concrete(Chroma(desc.texel, desc.color)))

\* GenericDescriptor::as_concrete; None is modelled by the record [some |-> FALSE].
AsConcrete(gd) ==
    IF IsConcrete(gd.size) /\ IsConcrete(gd.chroma)
    THEN [some |-> TRUE,
          desc |-> WithTexel(gd.chroma.c.texel, gd.chroma.c.color,
                             gd.size.c[1], gd.size.c[2])]
    ELSE [some |-> FALSE]

\* GenericDescriptor::monomorphize under the type arguments decl (a sequence
\* of concrete descriptors, indexed by generic variable).
Monomorphize(gd, decl) ==
    LET size == IF IsConcrete(gd.size) THEN gd.size.c
                ELSE DescriptorSize(decl[gd.size.var + 1])
        chroma == IF IsConcrete(gd.chroma) THEN gd.chroma.c
                  ELSE LET from == decl[gd.chroma.var + 1]
                       IN  Chroma(from.texel, from.color)
    IN  WithTexel(chroma.texel, chroma.color, size[1], size[2])

\* GenericDescriptor::rewrite under generic arguments decl (a sequence of
\* generic descriptors).
Rewrite(gd, decl) ==
    GenericDescriptor(
        IF IsConcrete(gd.size) THEN gd.size ELSE decl[gd.size.var + 1].size,
        IF IsConcrete(gd.chroma) THEN gd.chroma ELSE decl[gd.chroma.var + 1].chroma)

(***************************************************************************)
(* Rectangles in u32 space.                                                *)
(***************************************************************************)
Rectangle(x, y, max_x, max_y) == [x |-> x, y |-> y, max_x |-> max_x, max_y |-> max_y]

SaturatingSub(a, b) == IF a >= b THEN a - b ELSE 0

RectWithWidthHeight(width, height) == Rectangle(0, 0, width, height)

RectWithLayout(layout) == RectWithWidthHeight(layout.width, layout.height)

RectWidth(r) == SaturatingSub(r.max_x, r.x)

RectHeight(r) == SaturatingSub(r.max_y, r.y)

\* Rectangle::contains; checked_sub yields None when the offset exceeds the
\* extent, and None >= Some(_) is false.
RectContains(self, other) ==
    /\ self.x <= other.x
    /\ self.y <= other.y
    /\ LET offset_x == other.x - self.x
           offset_y == other.y - self.y
       IN  /\ RectWidth(self) >= offset_x
           /\ RectHeight(self) >= offset_y
           /\ RectWidth(self) - offset_x >= RectWidth(other)
           /\ RectHeight(self) - offset_y >= RectHeight(other)

\* Rectangle::normalize, as written: both maxima are computed from width().
RectNormalize(r) ==
    Rectangle(r.x, r.y, r.x + RectWidth(r), r.y + RectWidth(r))

\* u32::max and u32::min.
Max(a, b) == IF a >= b THEN a ELSE b

Min(a, b) == IF a <= b THEN a ELSE b

\* A meet that keeps the maxima of its receiver.
MeetKeepsSelfMax(self, other) ==
    Rectangle(Max(self.x, other.x), Max(self.y, other.y), self.max_x, self.max_y)

\* Rectangle::meet.
RectMeet(self, other) ==
    Rectangle(Max(self.x, other.x), Max(self.y, other.y),
              Min(self.max_x, other.max_x), Min(self.max_y, other.max_y))

\* A join that returns its argument.
JoinIsOther(self, other) == other

\* Rectangle::join.
RectJoin(self, other) ==
    Rectangle(Min(self.x, other.x), Min(self.y, other.y),
              Max(self.max_x, other.max_x), Max(self.max_y, other.max_y))

\* The coordinates are u32 in the source; the rectangle laws are explored
\* over unsigned integers of CoordBits bits.
CoordBits == 2

CoordModulus == 2 ^ CoordBits

CoordMax == CoordModulus - 1

\* u32::saturating_add, at the explored width.
SaturatingAdd(a, b) == Min(a + b, CoordMax)

\* Rectangle::inset.
RectInset(r, border) ==
    Rectangle(SaturatingAdd(r.x, border), SaturatingAdd(r.y, border),
              SaturatingSub(r.max_x, border), SaturatingSub(r.max_y, border))

\* The outcomes of Rectangle::normalize at the explored width: an addition
\* that overflows panics where overflow checks are on and wraps where they
\* are off.
NormalizeOutcomes(r) ==
    LET max_x == r.x + RectWidth(r)
        max_y == r.y + RectWidth(r)
        wrapped == [panic |-> FALSE,
                    rect |-> Rectangle(r.x, r.y, max_x % CoordModulus,
                                       max_y % CoordModulus)]
    IN  IF max_x > CoordMax \/ max_y > CoordMax
        THEN {wrapped, [panic |-> TRUE, rect |-> r]}
        ELSE {wrapped}

(***************************************************************************)
(* The command buffer: ops, generic variables (TyVarBounds carry no data,  *)
(* so the vector is modelled by its length), function declarations,        *)
(* descriptor variables and the knob table.                                *)
(***************************************************************************)
EmptyBuffer ==
    [ops |-> <<>>, vars |-> 0, symbols |-> <<>>, tys |-> <<>>, knobs |-> <<>>]

\* CommandBuffer::describe_reg.
describe_reg(c, reg) ==
    IF reg < 0 \/ reg >= Len(c.ops) THEN [class |-> "None"]
    ELSE LET op == c.ops[reg + 1]
         IN  CASE op.kind \in {"Output", "Render", "Invoke"} -> [class |-> "None"]
               [] op.kind \in {"InvokedResult", "Input", "Construct", "Unary",
                               "Binary", "DynamicImage"} ->
                      [class |-> "Texture", desc |-> op.desc]
               [] op.kind \in {"BufferInit", "BufferUnary", "BufferBinary"} ->
                      [class |-> "Buffer", desc |-> op.desc]

\* RegisterDescription::as_texture and as_buffer succeed on these classes.
IsTexture(c, reg) == describe_reg(c, reg).class = "Texture"

IsBuffer(c, reg) == describe_reg(c, reg).class = "Buffer"

\* CommandBuffer::push: the op is appended, its register is the old length.
push(c, op) == [c EXCEPT !.ops = Append(@, op)]

\* What a builder returns: the error kind ("Ok" for Ok(_)), the reason of a
\* BadDescriptor, the returned value and the command buffer afterwards.
Ok(c, val) == [err |-> "Ok", reason |-> "", val |-> val, cmd |-> c]

Err(c, kind, reason) == [err |-> kind, reason |-> reason, val |-> -1, cmd |-> c]

\* Ok(self.push(op)).
OkPush(c, op) == Ok(push(c, op), Len(c.ops))

\* CommandError::OTHER, which BAD_REGISTER and INVALID_CALL alias.
ErrOther(c) == Err(c, "Other", "")

ErrTypeErr(c) == Err(c, "GenericTypeError", "")

ErrUnimplemented(c) == Err(c, "Unimplemented", "")

ErrConcreteRequired(c) == Err(c, "ConcreteDescriptorRequired", "")

(***************************************************************************)
(* Builders (impl CommandBuffer).                                          *)
(***************************************************************************)
\* CommandBuffer::input.
input(c, desc) ==
    IF ~IsConsistent(desc)
    THEN Err(c, "BadDescriptor", "inconsistent input declared")
    ELSE OkPush(c, [kind |-> "Input", desc |-> FromDescriptor(desc)])

\* CommandBuffer::input_generic.
input_generic(c, var) ==
    IF var < 0 \/ var >= Len(c.tys) THEN ErrOther(c)
    ELSE OkPush(c, [kind |-> "Input", desc |-> c.tys[var + 1]])

\* CommandBuffer::generic.
generic(c) ==
    LET tyvar == c.vars
    IN  Ok([c EXCEPT !.vars = @ + 1,
                     !.tys = Append(@, GenericDescriptor(GenericOf(tyvar),
                                                         GenericOf(tyvar)))],
           Len(c.tys))

\* CommandBuffer::derive_descriptor; size is [some |-> FALSE] or
\* [some |-> TRUE, c |-> <<w, h>>].
derive_descriptor(c, base, size) ==
    IF base < 0 \/ base >= Len(c.tys) THEN ErrOther(c)
    ELSE LET from == c.tys[base + 1]
             desc == GenericDescriptor(
                         IF size.some THEN Concrete(size.c) ELSE from.size,
                         from.chroma)
         IN  Ok([c EXCEPT !.tys = Append(@, desc)], Len(c.tys))

\* CommandBuffer::register_descriptor.
register_descriptor(c, register) ==
    IF ~IsTexture(c, register) THEN ErrOther(c)
    ELSE Ok([c EXCEPT !.tys = Append(@, describe_reg(c, register).desc)],
            Len(c.tys))

\* The inputs and outputs of computed_signature, in op order.
RECURSIVE SignatureInputs(_, _)
SignatureInputs(c, n) ==
    IF n = 0 THEN <<>>
    ELSE LET op == c.ops[n]
         IN  IF op.kind = "Input"
             THEN Append(SignatureInputs(c, n - 1), op.desc)
             ELSE SignatureInputs(c, n - 1)

RECURSIVE SignatureOutputs(_, _)
SignatureOutputs(c, n) ==
    IF n = 0 THEN <<>>
    ELSE LET op == c.ops[n]
         IN  IF op.kind = "Output"
             THEN Append(SignatureOutputs(c, n - 1), describe_reg(c, op.src).desc)
             ELSE SignatureOutputs(c, n - 1)

\* CommandBuffer::computed_signature.
computed_signature(c) ==
    [vars |-> c.vars,
     input |-> SignatureInputs(c, Len(c.ops)),
     output |-> SignatureOutputs(c, Len(c.ops))]

\* CommandBuffer::function.
function(c, signature) ==
    Ok([c EXCEPT !.symbols = Append(@, signature)], Len(c.symbols))

\* As PushResults, but each result keeps the descriptor the signature
\* declares, not rewritten with the generic arguments of the call.
RECURSIVE PushResultsUnrewritten(_, _, _, _, _)
PushResultsUnrewritten(c, outputs, generics, invocation, k) ==
    IF k > Len(outputs) THEN c
    ELSE PushResultsUnrewritten(push(c, [kind |-> "InvokedResult",
                                         invocation |-> invocation,
                                         desc |-> outputs[k]]),
                                outputs, generics, invocation, k + 1)

\* The InvokedResult ops pushed by invoke, one per signature output.
RECURSIVE PushResults(_, _, _, _, _)
PushResults(c, outputs, generics, invocation, k) ==
    IF k > Len(outputs) THEN c
    ELSE PushResults(push(c, [kind |-> "InvokedResult",
                              invocation |-> invocation,
                              desc |-> Rewrite(outputs[k], generics)]),
                     outputs, generics, invocation, k + 1)

\* CommandBuffer::invoke; generics are descriptor variables, arguments are
\* registers.
invoke(c, fn, generics, arguments) ==
    IF fn < 0 \/ fn >= Len(c.symbols) THEN ErrOther(c)
    ELSE
    LET signature == c.symbols[fn + 1] IN
    IF Len(signature.input) # Len(arguments) THEN ErrOther(c)
    ELSE IF signature.vars # Len(generics) THEN ErrOther(c)
    ELSE IF \E i \in 1..Len(generics) : generics[i] < 0 \/ generics[i] >= Len(c.tys)
    THEN ErrOther(c)
    ELSE
    LET gens == [i \in 1..Len(generics) |-> c.tys[generics[i] + 1]] IN
    IF \E i \in 1..Len(arguments) :
           \/ ~IsTexture(c, arguments[i])
           \/ ~DescriptorEq(Rewrite(signature.input[i], gens),
                            describe_reg(c, arguments[i]).desc)
    THEN ErrOther(c)
    ELSE
    LET n == Len(c.ops)
        invocation == n + Len(signature.output)
        results == [k \in 1..Len(signature.output) |-> n + k - 1]
        withResults == PushResults(c, signature.output, gens, invocation, 1)
    IN  Ok(push(withResults, [kind |-> "Invoke", function |-> fn,
                              arguments |-> arguments, results |-> results,
                              generics |-> gens]),
           results)

\* CommandBuffer::crop.
crop(c, src, rect) ==
    IF ~IsTexture(c, src) THEN ErrOther(c)
    ELSE OkPush(c, [kind |-> "Unary", src |-> src,
                    op |-> [tag |-> "Crop", rect |-> rect],
                    desc |-> describe_reg(c, src).desc])

\* The ColorConversion variant color_convert selects for a color pair.
ColorConversionOf(src, dst) ==
    CASE ColorIsRgb(src) /\ ColorIsRgb(dst)
           /\ ColorWhitepoint(src) = ColorWhitepoint(dst) -> "Xyz"
      [] ColorIsRgb(src) /\ ColorWhitepoint(src) = "D65" /\ dst = "Oklab" -> "XyzToOklab"
      [] src = "Oklab" /\ ColorIsRgb(dst) /\ ColorWhitepoint(dst) = "D65" -> "OklabToXyz"
      [] ColorIsRgb(src) /\ dst = "SrLab2" -> "XyzToSrLab2"
      [] src = "SrLab2" /\ ColorIsRgb(dst) -> "SrLab2ToXyz"
      [] OTHER -> "None"

\* CommandBuffer::color_convert.
color_convert(c, src, color, texel) ==
    IF ~IsTexture(c, src) THEN ErrOther(c)
    ELSE LET desc_src == AsConcrete(describe_reg(c, src).desc) IN
    IF ~desc_src.some THEN ErrConcreteRequired(c)
    ELSE LET conversion == ColorConversionOf(desc_src.desc.color, color) IN
    IF conversion = "None" THEN Err(c, "BadDescriptor", "No conversion")
    ELSE OkPush(c, [kind |-> "Unary", src |-> src,
                    op |-> [tag |-> "ColorConvert", conversion |-> conversion],
                    desc |-> FromDescriptor(
                        WithTexel(texel, color, desc_src.desc.layout.width,
                                  desc_src.desc.layout.height))])

\* CommandBuffer::chromatic_adaptation.
chromatic_adaptation(c, src, method, target) ==
    IF ~IsTexture(c, src) THEN ErrOther(c)
    ELSE LET desc_src == AsConcrete(describe_reg(c, src).desc) IN
    IF ~desc_src.some THEN ErrConcreteRequired(c)
    ELSE IF ~ColorIsRgb(desc_src.desc.color)
    THEN Err(c, "BadDescriptor", "non-rgb chromatic adaptation")
    ELSE OkPush(c, [kind |-> "Unary", src |-> src,
                    op |-> [tag |-> "ChromaticAdaptation", method |-> method,
                            source |-> ColorWhitepoint(desc_src.desc.color),
                            target |-> target],
                    desc |-> FromDescriptor(
                        [desc_src.desc EXCEPT !.color = RgbWithWhitepoint(target)])])

\* An inscribe whose result takes the descriptor of `above`.
InscribeAsAbove(c, below, rect, above) ==
    IF ~IsTexture(c, below) \/ ~IsTexture(c, above) THEN ErrOther(c)
    ELSE
    LET desc_below == describe_reg(c, below).desc
        desc_above == describe_reg(c, above).desc
    IN
    IF ~GenericEq(desc_above.chroma, desc_below.chroma)
    THEN Err(c, "ConflictingTypes", "")
    ELSE IF ~AsConcrete(desc_above).some THEN ErrConcreteRequired(c)
    ELSE IF RectWithLayout(AsConcrete(desc_above).desc.layout) # rect THEN ErrOther(c)
    ELSE IF /\ AsConcrete(desc_below).some
            /\ ~RectContains(RectWithLayout(AsConcrete(desc_below).desc.layout), rect)
    THEN ErrOther(c)
    ELSE OkPush(c, [kind |-> "Binary", lhs |-> below, rhs |-> above,
                    op |-> [tag |-> "Inscribe", placement |-> RectNormalize(rect)],
                    desc |-> desc_above])

\* CommandBuffer::inscribe.
inscribe(c, below, rect, above) ==
    IF ~IsTexture(c, below) \/ ~IsTexture(c, above) THEN ErrOther(c)
    ELSE
    LET desc_below == describe_reg(c, below).desc
        desc_above == describe_reg(c, above).desc
    IN
    IF ~GenericEq(desc_above.chroma, desc_below.chroma)
    THEN Err(c, "ConflictingTypes", "")
    ELSE IF ~AsConcrete(desc_above).some THEN ErrConcreteRequired(c)
    ELSE IF RectWithLayout(AsConcrete(desc_above).desc.layout) # rect THEN ErrOther(c)
    ELSE IF /\ AsConcrete(desc_below).some
            /\ ~RectContains(RectWithLayout(AsConcrete(desc_below).desc.layout), rect)
    THEN ErrOther(c)
    ELSE OkPush(c, [kind |-> "Binary", lhs |-> below, rhs |-> above,
                    op |-> [tag |-> "Inscribe", placement |-> RectNormalize(rect)],
                    desc |-> desc_below])

\* CommandBuffer::extract.
extract(c, src, channel) ==
    IF ~IsTexture(c, src) THEN ErrOther(c)
    ELSE LET desc_src == AsConcrete(describe_reg(c, src).desc) IN
    IF ~desc_src.some THEN ErrConcreteRequired(c)
    ELSE LET texel == ChannelTexel(desc_src.desc.texel, channel) IN
    IF ~texel.some THEN ErrOther(c)
    ELSE IF ~ChannelPosition(channel).some THEN ErrOther(c)
    ELSE OkPush(c, [kind |-> "Unary", src |-> src,
                    op |-> [tag |-> "Extract", channel |-> ChannelPosition(channel).pos],
                    desc |-> FromDescriptor(
                        WithTexel(texel.texel, desc_src.desc.color,
                                  desc_src.desc.layout.width,
                                  desc_src.desc.layout.height))])

\* A chroma comparison that takes any two concrete chromas for compatible.
CanTransmuteAnyBytes(source, target) ==
    CASE ~IsConcrete(source) /\ ~IsConcrete(target) -> source.var = target.var
      [] IsConcrete(source) /\ IsConcrete(target) -> TRUE
      [] OTHER -> FALSE

\* can_transmute of transmute_generic.
can_transmute(source, target) ==
    CASE ~IsConcrete(source) /\ ~IsConcrete(target) -> source.var = target.var
      [] IsConcrete(source) /\ IsConcrete(target) ->
             TexelBytes(source.c.texel) = TexelBytes(target.c.texel)
      [] OTHER -> FALSE

\* CommandBuffer::transmute_generic.
transmute_generic(c, src, into) ==
    IF ~IsTexture(c, src) THEN ErrOther(c)
    ELSE LET source == describe_reg(c, src).desc IN
    IF ~GenericEq(source.size, into.size)
    THEN Err(c, "BadDescriptor", "invalid transmute with mismatched size")
    ELSE IF ~can_transmute(source.chroma, into.chroma)
    THEN Err(c, "ConflictingTypes", "")
    ELSE IF AsConcrete(into).some /\ ~IsConsistent(AsConcrete(into).desc)
    THEN Err(c, "BadDescriptor", "invalid transmute with inconsistent result")
    ELSE OkPush(c, [kind |-> "Unary", src |-> src, op |-> [tag |-> "Transmute"],
                    desc |-> into])

\* A transmute that reports every failure as a mismatched size.
TransmuteBadDescriptor(c, src, target) ==
    LET r == transmute_generic(c, src, FromDescriptor(target))
    IN  IF r.err = "Ok" THEN r
        ELSE Err(c, "BadDescriptor", "invalid transmute with mismatched size")

\* CommandBuffer::transmute.
transmute(c, src, target) == transmute_generic(c, src, FromDescriptor(target))

\* Texel::channel_weight_vec4: defined for every sample layout of the model.
ChannelWeightVec4(texel) == [some |-> TRUE]

\* CommandBuffer::inject.
inject(c, below, channel, above) ==
    IF ~IsTexture(c, below) \/ ~IsTexture(c, above) THEN ErrOther(c)
    ELSE
    LET desc_below == describe_reg(c, below).desc
        desc_above == describe_reg(c, above).desc
    IN
    IF ~IsConcrete(desc_below.chroma)
    THEN Err(c, "BadDescriptor", "inject into non-concrete texel")
    ELSE IF ~IsConcrete(desc_above.chroma)
    THEN Err(c, "BadDescriptor", "inject from non-concrete texel")
    ELSE
    LET below_texel == desc_below.chroma.c.texel
        above_texel == desc_above.chroma.c.texel
        expected == ChannelTexel(below_texel, channel)
    IN
    IF ~expected.some THEN ErrOther(c)
    ELSE IF NumComponents(above_texel.parts) # NumComponents(expected.texel.parts)
    THEN Err(c, "ConflictingTypes", "")
    ELSE IF ~ChannelWeightVec4(above_texel).some THEN ErrOther(c)
    ELSE IF \/ expected.texel # [above_texel EXCEPT !.parts = expected.texel.parts]
            \/ desc_below.chroma.c.color # desc_above.chroma.c.color
    THEN Err(c, "ConflictingTypes", "")
    ELSE IF ~ChannelPosition(channel).some THEN ErrOther(c)
    ELSE OkPush(c, [kind |-> "Binary", lhs |-> below, rhs |-> above,
                    op |-> [tag |-> "Inject",
                            channel |-> ChannelPosition(channel).pos],
                    desc |-> desc_below])

\* CommandBuffer::palette; config holds the optional width and height
\* channels ("None" for an absent one).
palette(c, pal, config, indices) ==
    IF ~IsTexture(c, pal) \/ ~IsTexture(c, indices) THEN ErrOther(c)
    ELSE IF config.width # "None" /\ ~ChannelPosition(config.width).some
    THEN ErrTypeErr(c)
    ELSE IF config.height # "None" /\ ~ChannelPosition(config.height).some
    THEN ErrTypeErr(c)
    ELSE OkPush(c, [kind |-> "Binary", lhs |-> pal, rhs |-> indices,
                    op |-> [tag |-> "Palette"],
                    desc |-> GenericDescriptor(describe_reg(c, indices).desc.size,
                                               describe_reg(c, pal).desc.chroma)])

\* CommandBuffer::derivative.
derivative(c, image, method) ==
    IF ~IsTexture(c, image) THEN ErrOther(c)
    ELSE OkPush(c, [kind |-> "Unary", src |-> image,
                    op |-> [tag |-> "Derivative", method |-> method],
                    desc |-> describe_reg(c, image).desc])

\* CommandBuffer::blend.
blend(c, below, rect, above) == ErrUnimplemented(c)

\* The length of the color argument of solid_rgba, a [f32; 4].
ColorLen == 4

\* CommandBuffer::solid_rgba.
solid_rgba(c, describe) ==
    IF ~IsConsistent(describe)
    THEN Err(c, "BadDescriptor", "inconsistent constant color image created")
    ELSE IF ColorLen # describe.layout.texel_stride
    THEN Err(c, "BadDescriptor", "inconsistent color description")
    ELSE OkPush(c, [kind |-> "Construct", desc |-> FromDescriptor(describe),
                    op |-> [tag |-> "Solid"]])

\* CommandBuffer::distribution_normal2d.
distribution_normal2d(c, describe) ==
    IF ~IsConsistent(describe)
    THEN Err(c, "BadDescriptor", "inconsistent normal2d")
    ELSE IF describe.texel.parts \notin {"Luma", "LumaA"}
    THEN Err(c, "BadDescriptor", "normal2d for non-LumA texel")
    ELSE OkPush(c, [kind |-> "Construct", desc |-> FromDescriptor(describe),
                    op |-> [tag |-> "DistributionNormal"]])

\* CommandBuffer::distribution_fractal_noise.
distribution_fractal_noise(c, describe) ==
    IF ~IsConsistent(describe)
    THEN Err(c, "BadDescriptor", "inconsistent descriptor for fractal noise")
    ELSE OkPush(c, [kind |-> "Construct", desc |-> FromDescriptor(describe),
                    op |-> [tag |-> "DistributionNoise"]])

\* CommandBuffer::bilinear.
bilinear(c, describe) ==
    IF ~IsConsistent(describe)
    THEN Err(c, "BadDescriptor", "inconsistent descriptor for bilinear")
    ELSE OkPush(c, [kind |-> "Construct", desc |-> FromDescriptor(describe),
                    op |-> [tag |-> "Bilinear"]])

\* CommandBuffer::affine; the transformation enters by whether its
\* determinant is at least f32::EPSILON in absolute value.
affine(c, below, aff, above) ==
    IF ~IsTexture(c, below) \/ ~IsTexture(c, above) THEN ErrOther(c)
    ELSE
    LET lhs == describe_reg(c, below).desc
        rhs == describe_reg(c, above).desc
    IN
    IF ~GenericEq(lhs.chroma, rhs.chroma) THEN ErrTypeErr(c)
    ELSE IF ~aff.invertible THEN ErrOther(c)
    ELSE IF aff.sampling = "BiLinear" THEN ErrUnimplemented(c)
    ELSE OkPush(c, [kind |-> "Binary", lhs |-> below, rhs |-> above,
                    op |-> [tag |-> "Affine", sampling |-> aff.sampling],
                    desc |-> lhs])

\* CommandBuffer::resize: a bilinear coordinate grid is constructed, then
\* the palette lookup of `below` through the grid is pushed; `?` on the
\* grid returns its error, the error of the palette call is returned with
\* the buffer the grid was pushed to.
resize(c, below, upper) ==
    LET grid == bilinear(c, WithTexel(RgbA8, "Srgb", upper[1], upper[2])) IN
    IF grid.err # "Ok" THEN grid
    ELSE palette(grid.cmd, below, [width |-> "R", height |-> "G"], grid.val)

\* CommandBuffer::output.
output(c, src) ==
    IF ~IsTexture(c, src) THEN ErrOther(c)
    ELSE Ok(push(c, [kind |-> "Output", src |-> src]),
            [register |-> Len(c.ops), outformat |-> describe_reg(c, src).desc])

\* CommandBuffer::render.
render(c, src) ==
    IF ~IsTexture(c, src) THEN ErrOther(c)
    ELSE IF ~AsConcrete(describe_reg(c, src).desc).some THEN ErrConcreteRequired(c)
    ELSE Ok(push(c, [kind |-> "Render", src |-> src]),
            [register |-> Len(c.ops),
             outformat |-> AsConcrete(describe_reg(c, src).desc).desc])

(***************************************************************************)
(* Buffers.                                                                *)
(***************************************************************************)
\* The row alignment of the encoded (transfer buffer) layout of an image.
RowAlignment == 256

\* Descriptor::to_aligned: each row is padded to the row alignment.
ToAligned(desc) ==
    [desc EXCEPT !.layout.row_stride =
        ((desc.layout.width * desc.layout.texel_stride + RowAlignment - 1)
            \div RowAlignment) * RowAlignment]

\* Descriptor::u64_gpu_len: the GPU-aligned total size.
GpuLen(desc) == ToAligned(desc).layout.height * ToAligned(desc).layout.row_stride

GenericBuffer(size) == [size |-> size]

\* CommandBuffer::from_buffer.
from_buffer(c, buffer_reg, descriptor) ==
    IF ~IsBuffer(c, buffer_reg) THEN ErrTypeErr(c)
    ELSE
    LET size == describe_reg(c, buffer_reg).desc.size IN
    IF ~IsConcrete(size) THEN ErrUnimplemented(c)
    ELSE IF size.c < GpuLen(descriptor) THEN ErrOther(c)
    ELSE OkPush(c, [kind |-> "Construct", desc |-> FromDescriptor(descriptor),
                    op |-> [tag |-> "FromBuffer", buffer |-> buffer_reg]])

\* CommandBuffer::buffer_init, by the length of the initial data.
buffer_init(c, len) ==
    OkPush(c, [kind |-> "BufferInit", desc |-> GenericBuffer(Concrete(len)),
               op |-> [tag |-> "FromData", placement |-> len]])

\* CommandBuffer::buffer_zero.
buffer_zero(c, len) ==
    OkPush(c, [kind |-> "BufferInit", desc |-> GenericBuffer(Concrete(len)),
               op |-> [tag |-> "FromData", placement |-> 0]])

\* CommandBuffer::buffer_from_image.
buffer_from_image(c, register) ==
    IF ~IsTexture(c, register) THEN ErrOther(c)
    ELSE LET tex == AsConcrete(describe_reg(c, register).desc) IN
    IF ~tex.some THEN ErrOther(c)
    ELSE OkPush(c, [kind |-> "BufferUnary", src |-> register,
                    desc |-> GenericBuffer(Concrete(GpuLen(tex.desc))),
                    op |-> [tag |-> "FromImage"]])

\* CommandBuffer::buffer_overlay.
buffer_overlay(c, under, at, over) ==
    IF ~IsBuffer(c, under) \/ ~IsBuffer(c, over) THEN ErrOther(c)
    ELSE OkPush(c, [kind |-> "BufferBinary", lhs |-> under, rhs |-> over,
                    desc |-> GenericBuffer(describe_reg(c, under).desc.size),
                    op |-> [tag |-> "Overlay", at |-> at]])

(***************************************************************************)
(* Dynamic shader commands; the descriptor is the one the shader reports.  *)
(***************************************************************************)
\* CommandBuffer::construct_dynamic.
construct_dynamic(c, desc) ==
    OkPush(c, [kind |-> "DynamicImage", call |-> [tag |-> "Construct"],
               num_args |-> 0, desc |-> FromDescriptor(desc)])

\* As unary_dynamic, but without looking up the operand register.
UnaryDynamicUnchecked(c, op, desc) ==
    OkPush(c, [kind |-> "DynamicImage", call |-> [tag |-> "Unary", src |-> op],
               num_args |-> 1, desc |-> FromDescriptor(desc)])

\* CommandBuffer::unary_dynamic.
unary_dynamic(c, op, desc) ==
    IF ~IsTexture(c, op) THEN ErrOther(c)
    ELSE OkPush(c, [kind |-> "DynamicImage", call |-> [tag |-> "Unary", src |-> op],
                    num_args |-> 1, desc |-> FromDescriptor(desc)])

\* CommandBuffer::binary_dynamic.
binary_dynamic(c, lhs, rhs, desc) ==
    IF ~IsTexture(c, lhs) \/ ~IsTexture(c, rhs) THEN ErrOther(c)
    ELSE OkPush(c, [kind |-> "DynamicImage",
                    call |-> [tag |-> "Binary", lhs |-> lhs, rhs |-> rhs],
                    num_args |-> 2, desc |-> FromDescriptor(desc)])

(***************************************************************************)
(* Knobs: with_knob() and with_buffer() wrap one builder call.             *)
(***************************************************************************)
\* HashMap::insert.
HashMapInsert(knobs, register, kind) ==
    [r \in (DOMAIN knobs) \cup {register} |->
        IF r = register THEN kind ELSE knobs[r]]

\* WithKnob::regular_with_knob, applied to the result of the wrapped call.
regular_with_knob(result) ==
    IF result.err # "Ok" THEN result
    ELSE [result EXCEPT !.cmd.knobs = HashMapInsert(@, result.val, [kind |-> "Runtime"])]

\* CommandBuffer::with_buffer: the WithBuffer wrapper, or the error.
with_buffer(c, register) ==
    IF ~IsBuffer(c, register) THEN ErrOther(c)
    ELSE IF ~IsConcrete(describe_reg(c, register).desc.size)
    THEN ErrConcreteRequired(c)
    ELSE Ok(c, [guaranteed_len |-> describe_reg(c, register).desc.size.c,
                start |-> 0, register |-> register])

\* WithBuffer::regular_with_buffer: wb is the wrapper, len the byte size the
\* wrapped command reads, result the outcome of the wrapped call on wb's
\* command buffer c.
regular_with_buffer(c, wb, len, result) ==
    IF wb.guaranteed_len < len THEN ErrOther(c)
    ELSE IF result.err # "Ok" THEN result
    ELSE [result EXCEPT !.cmd.knobs =
            HashMapInsert(@, result.val,
                       [kind |-> "Buffer", buffer |-> wb.register, len |-> len])]

\* WithBuffer::with_start on the wrapper wb of command buffer c.
with_start(c, wb, start) ==
    IF start % 4 # 0 THEN ErrOther(c)
    ELSE Ok(c, [wb EXCEPT !.start = 4])

\* The byte sizes of the parameter blocks the WithBuffer methods require.
SolidDataLen == 16

BilinearDataLen == 96

Normal2dDataLen == 32

ChromaticAdaptationDataLen == 48

(***************************************************************************)
(* The values the builder calls are made with.                             *)
(***************************************************************************)
DA == WithTexel(RgbA8, "Srgb", 1, 2)

DB == WithTexel(Rg16, "Srgb", 1, 2)

DC == WithTexel(Luma8, "Srgb", 1, 2)

DS == WithTexel(RgbA8, "Srgb", 2, 2)

\* A descriptor whose layout disagrees with its texel.
DBad == [DA EXCEPT !.layout.texel_stride = 1]

InputDescriptors == {DA, DB, DC, DS, DBad}

ConstructDescriptors == {DA, DC, DBad}

\* Transmute targets: concrete ones, generic ones and mixed ones.
TransmuteTargets ==
    {FromDescriptor(d) : d \in {DA, DB, DC, DS}}
        \cup {GenericDescriptor(GenericOf(0), GenericOf(0)),
              GenericDescriptor(GenericOf(0), Concrete(Chroma(RgbA8, "Srgb"))),
              GenericDescriptor(Concrete(<<1, 2>>), GenericOf(0))}

\* Registers named by a call: the ones of the buffer and one past the end.
Registers(c) == 0 .. Len(c.ops)

Rectangles == {RectWithWidthHeight(1, 2), RectWithWidthHeight(2, 2)}

Channels == {"R", "Alpha", "Luma"}

PaletteConfigs == {[width |-> "R", height |-> "G"],
                   [width |-> "Alpha", height |-> "None"]}

DerivativeMethods == {"Sobel", "Roberts"}

AdaptationMethods == {"VonKries", "BradfordNonLinear"}

ConvertColors == {"Srgb", "SrgbD50", "Oklab", "SrLab2"}

Affines == {[invertible |-> TRUE, sampling |-> "Nearest"],
            [invertible |-> FALSE, sampling |-> "Nearest"],
            [invertible |-> TRUE, sampling |-> "BiLinear"]}

BufferLens == {SolidDataLen, BilinearDataLen}

(***************************************************************************)
(* Command buffers of callees, each built by builder calls.                *)
(***************************************************************************)
\* fn(image: DA) -> DA, returning its input.
FnIdentity == output(input(EmptyBuffer, DA).cmd, 0).cmd

\* fn<T>(image: T) -> T, returning its input.
FnGeneric == output(input_generic(generic(EmptyBuffer).cmd, 0).cmd, 0).cmd

\* fn<T>(image: T) -> T, which also constructs a grid under a runtime knob.
FnGenericKnob ==
    output(regular_with_knob(
               bilinear(input_generic(generic(EmptyBuffer).cmd, 0).cmd, DA)).cmd,
           0).cmd

Signatures == {computed_signature(FnIdentity), computed_signature(FnGeneric)}

\* fn(image: DA), returning nothing.
FnSink == input(EmptyBuffer, DA).cmd

\* fn<T>(a: T, b: DA) -> (DA, T), returning its inputs in swapped order.
FnSwap ==
    LET c == input(input_generic(generic(EmptyBuffer).cmd, 0).cmd, DA).cmd
    IN  output(output(c, 1).cmd, 0).cmd

(***************************************************************************)
(* Builder calls as actions on the command buffer `cmd`.                   *)
(***************************************************************************)
\* The entries a command buffer holds.
Entries(c) == Len(c.ops) + Len(c.tys) + Len(c.symbols)

\* No Surface was created: the command buffers are used on their own.
NoSurface == [created |-> FALSE]

\* No call is pending: the client has taken the result of its last call.
NoCall ==
    [call |-> "none", args |-> <<>>, err |-> "Ok", reason |-> "", val |-> -1,
     before |-> EmptyBuffer]

CanGrow ==
    /\ lk.phase = "idle"
    /\ last.call = "none"
    /\ Entries(cmd) < limit

\* One builder call returned `result`.
Call(name, args, result) ==
    /\ CanGrow
    /\ cmd' = result.cmd
    /\ last' = [call |-> name, args |-> args, err |-> result.err,
                reason |-> result.reason, val |-> result.val, before |-> cmd]
    /\ UNCHANGED <<limit, lk, surface>>

Input == \E d \in InputDescriptors : Call("input", <<d>>, input(cmd, d))

InputGeneric ==
    \E v \in 0 .. Len(cmd.tys) : Call("input_generic", <<v>>, input_generic(cmd, v))

Generic == Call("generic", <<>>, generic(cmd))

DeriveDescriptor ==
    \E b \in 0 .. Len(cmd.tys), size \in {[some |-> FALSE], [some |-> TRUE, c |-> <<2, 2>>]} :
        Call("derive_descriptor", <<b, size>>, derive_descriptor(cmd, b, size))

RegisterDescriptor ==
    \E r \in Registers(cmd) :
        Call("register_descriptor", <<r>>, register_descriptor(cmd, r))

Function == \E sig \in Signatures : Call("function", <<sig>>, function(cmd, sig))

Invoke ==
    \E f \in 0 .. Len(cmd.symbols),
       generics \in {<<>>} \cup {<<t>> : t \in 0 .. Len(cmd.tys)},
       arguments \in {<<>>} \cup {<<r>> : r \in Registers(cmd)} :
        Call("invoke", <<f, generics, arguments>>, invoke(cmd, f, generics, arguments))

Crop ==
    \E r \in Registers(cmd) :
        Call("crop", <<r>>, crop(cmd, r, RectWithWidthHeight(1, 1)))

ColorConvert ==
    \E r \in Registers(cmd), color \in ConvertColors :
        Call("color_convert", <<r, color>>, color_convert(cmd, r, color, RgbA8))

ChromaticAdaptation ==
    \E r \in Registers(cmd), m \in AdaptationMethods :
        Call("chromatic_adaptation", <<r, m>>, chromatic_adaptation(cmd, r, m, "D50"))

Inscribe ==
    \E below \in Registers(cmd), rect \in Rectangles, above \in Registers(cmd) :
        Call("inscribe", <<below, rect, above>>, inscribe(cmd, below, rect, above))

Extract ==
    \E r \in Registers(cmd), ch \in Channels :
        Call("extract", <<r, ch>>, extract(cmd, r, ch))

Transmute ==
    \E r \in Registers(cmd), d \in {DB, DC} :
        Call("transmute", <<r, d>>, transmute(cmd, r, d))

TransmuteGeneric ==
    \E r \in Registers(cmd), into \in TransmuteTargets :
        Call("transmute_generic", <<r, into>>, transmute_generic(cmd, r, into))

Inject ==
    \E below \in Registers(cmd), ch \in Channels, above \in Registers(cmd) :
        Call("inject", <<below, ch, above>>, inject(cmd, below, ch, above))

Palette ==
    \E pal \in Registers(cmd), cfg \in PaletteConfigs, idx \in Registers(cmd) :
        Call("palette", <<pal, cfg, idx>>, palette(cmd, pal, cfg, idx))

Derivative ==
    \E r \in Registers(cmd), m \in DerivativeMethods :
        Call("derivative", <<r, m>>, derivative(cmd, r, m))

Blend ==
    \E below \in Registers(cmd), above \in Registers(cmd) :
        Call("blend", <<below, above>>,
             blend(cmd, below, RectWithWidthHeight(1, 2), above))

SolidRgba ==
    \E d \in ConstructDescriptors : Call("solid_rgba", <<d>>, solid_rgba(cmd, d))

DistributionNormal2d ==
    \E d \in ConstructDescriptors :
        Call("distribution_normal2d", <<d>>, distribution_normal2d(cmd, d))

DistributionFractalNoise ==
    \E d \in ConstructDescriptors :
        Call("distribution_fractal_noise", <<d>>, distribution_fractal_noise(cmd, d))

Bilinear == \E d \in ConstructDescriptors : Call("bilinear", <<d>>, bilinear(cmd, d))

Affine ==
    \E below \in Registers(cmd), aff \in Affines, above \in Registers(cmd) :
        Call("affine", <<below, aff, above>>, affine(cmd, below, aff, above))

Resize ==
    \E below \in Registers(cmd) :
        Call("resize", <<below, <<2, 2>>>>, resize(cmd, below, <<2, 2>>))

Output == \E r \in Registers(cmd) : Call("output", <<r>>, output(cmd, r))

Render == \E r \in Registers(cmd) : Call("render", <<r>>, render(cmd, r))

FromBuffer ==
    \E b \in Registers(cmd), d \in {DA} :
        Call("from_buffer", <<b, d>>, from_buffer(cmd, b, d))

BufferInit ==
    \E len \in {SolidDataLen} : Call("buffer_init", <<len>>, buffer_init(cmd, len))

BufferZero ==
    \E len \in BufferLens \cup {GpuLen(DA)} :
        Call("buffer_zero", <<len>>, buffer_zero(cmd, len))

BufferFromImage ==
    \E r \in Registers(cmd) :
        Call("buffer_from_image", <<r>>, buffer_from_image(cmd, r))

BufferOverlay ==
    \E under \in Registers(cmd), over \in Registers(cmd) :
        Call("buffer_overlay", <<under, over>>, buffer_overlay(cmd, under, 0, over))

ConstructDynamic == Call("construct_dynamic", <<DA>>, construct_dynamic(cmd, DA))

UnaryDynamic ==
    \E r \in Registers(cmd) :
        Call("unary_dynamic", <<r, DA>>, unary_dynamic(cmd, r, DA))

BinaryDynamic ==
    \E lhs \in Registers(cmd), rhs \in Registers(cmd) :
        Call("binary_dynamic", <<lhs, rhs, DA>>, binary_dynamic(cmd, lhs, rhs, DA))

\* with_knob().<builder>(..): the methods of WithKnob.
KnobChromaticAdaptation ==
    \E r \in Registers(cmd), m \in AdaptationMethods :
        Call("with_knob.chromatic_adaptation", <<r, m>>,
             regular_with_knob(chromatic_adaptation(cmd, r, m, "D50")))

KnobInscribe ==
    \E below \in Registers(cmd), rect \in Rectangles, above \in Registers(cmd) :
        Call("with_knob.inscribe", <<below, rect, above>>,
             regular_with_knob(inscribe(cmd, below, rect, above)))

KnobSolidRgba ==
    \E d \in ConstructDescriptors :
        Call("with_knob.solid_rgba", <<d>>, regular_with_knob(solid_rgba(cmd, d)))

KnobDistributionNormal2d ==
    \E d \in ConstructDescriptors :
        Call("with_knob.distribution_normal2d", <<d>>,
             regular_with_knob(distribution_normal2d(cmd, d)))

KnobDistributionFractalNoise ==
    \E d \in ConstructDescriptors :
        Call("with_knob.distribution_fractal_noise", <<d>>,
             regular_with_knob(distribution_fractal_noise(cmd, d)))

KnobBilinear ==
    \E d \in ConstructDescriptors :
        Call("with_knob.bilinear", <<d>>, regular_with_knob(bilinear(cmd, d)))

KnobBufferInit ==
    \E len \in {SolidDataLen} :
        Call("with_knob.buffer_init", <<len>>, regular_with_knob(buffer_init(cmd, len)))

\* with_buffer(register)?.<builder>(..): the error of with_buffer is the
\* error of the call, otherwise the method of WithBuffer runs.
WithBufferCall(name, buf, args, len, result) ==
    LET wb == with_buffer(cmd, buf)
    IN  Call(name, <<buf>> \o args,
             IF wb.err # "Ok" THEN wb
             ELSE regular_with_buffer(cmd, wb.val, len, result))

BufferChromaticAdaptation ==
    \E buf \in Registers(cmd), r \in Registers(cmd), m \in AdaptationMethods :
        WithBufferCall("with_buffer.chromatic_adaptation", buf, <<r, m>>,
                       ChromaticAdaptationDataLen,
                       chromatic_adaptation(cmd, r, m, "D50"))

BufferSolidRgba ==
    \E buf \in Registers(cmd), d \in ConstructDescriptors :
        WithBufferCall("with_buffer.solid_rgba", buf, <<d>>, SolidDataLen,
                       solid_rgba(cmd, d))

BufferDistributionNormal2d ==
    \E buf \in Registers(cmd), d \in ConstructDescriptors :
        WithBufferCall("with_buffer.distribution_normal2d", buf, <<d>>,
                       Normal2dDataLen, distribution_normal2d(cmd, d))

BufferBilinear ==
    \E buf \in Registers(cmd), d \in ConstructDescriptors :
        WithBufferCall("with_buffer.bilinear", buf, <<d>>, BilinearDataLen,
                       bilinear(cmd, d))

\* No link is running.
LinkIdle == [phase |-> "idle", result |-> "None"]

\* The client takes the result of the call that returned, Ok or Err, and
\* is free to make its next call on the same buffer.
Observe ==
    /\ lk.phase = "idle"
    /\ last.call # "none"
    /\ last' = NoCall
    /\ UNCHANGED <<cmd, limit, lk, surface>>

Init ==
    /\ cmd = EmptyBuffer
    /\ limit = MaxOps
    /\ last = NoCall
    /\ lk = LinkIdle
    /\ surface = NoSurface

Next ==
    \/ Input \/ InputGeneric \/ Generic \/ DeriveDescriptor \/ RegisterDescriptor
    \/ Function \/ Invoke
    \/ Crop \/ ColorConvert \/ ChromaticAdaptation \/ Inscribe \/ Extract
    \/ Transmute \/ TransmuteGeneric \/ Inject \/ Palette \/ Derivative \/ Blend
    \/ SolidRgba \/ DistributionNormal2d \/ DistributionFractalNoise \/ Bilinear
    \/ Affine \/ Resize \/ Output \/ Render
    \/ FromBuffer \/ BufferInit \/ BufferZero \/ BufferFromImage \/ BufferOverlay
    \/ ConstructDynamic \/ UnaryDynamic \/ BinaryDynamic
    \/ KnobChromaticAdaptation \/ KnobInscribe \/ KnobSolidRgba
    \/ KnobDistributionNormal2d \/ KnobDistributionFractalNoise \/ KnobBilinear
    \/ KnobBufferInit
    \/ BufferChromaticAdaptation \/ BufferSolidRgba \/ BufferDistributionNormal2d
    \/ BufferBilinear
    \/ Observe

Spec == Init /\ [][Next]_vars

(***************************************************************************)
(* Shaders: FragmentShaderData::num_args of each FragmentShaderInvocation. *)
(***************************************************************************)
Shader(invocation) == [invocation |-> invocation]

\* FragmentShaderInvocation::Runtime of a ShaderInvocation.
RuntimeShader(num_args) == [invocation |-> "Runtime", num_args |-> num_args]

\* The default of the trait FragmentShaderData, overridden by no shader.
NumArgsDefault(shader) == 1

\* The num_args of the shaders of the two distributions.
DistributionNumArgs(shader) == 0

NumArgs(shader) ==
    CASE shader.invocation \in {"SolidRgb", "Bilinear"} -> 0
      [] shader.invocation \in {"Normal2d", "FractalNoise"} ->
            DistributionNumArgs(shader)
      [] shader.invocation \in {"Palette", "Inject"} -> 2
      [] shader.invocation = "Runtime" -> shader.num_args
      [] OTHER -> 1

\* ColorConversion::to_shader.
ColorConversionShader(conversion) ==
    CASE conversion = "Xyz" -> Shader("LinearColorMatrix")
      [] conversion \in {"XyzToOklab", "OklabToXyz"} -> Shader("Oklab")
      [] OTHER -> Shader("SrLab2")

\* ChromaticAdaptation::to_matrix fails for the non-linear Bradford method.
AdaptationHasMatrix(method) == method # "BradfordNonLinear"

\* DerivativeMethod::to_shader fails for the methods not implemented.
DerivativeHasShader(method) ==
    method \notin {"Roberts", "Scharr4", "Scharr5", "Scharr5Tab"}

(***************************************************************************)
(* Liveness analysis of link_in.                                           *)
(***************************************************************************)
\* The registers whose last_use and first_use the sweep updates at an op.
Reads(op) ==
    CASE op.kind \in {"Output", "Render", "Unary", "BufferUnary"} -> {op.src}
      [] op.kind \in {"Binary", "BufferBinary"} -> {op.lhs, op.rhs}
      [] op.kind = "DynamicImage" ->
            (CASE op.call.tag = "Unary" -> {op.call.src}
               [] op.call.tag = "Binary" -> {op.call.lhs, op.call.rhs}
               [] OTHER -> {})
      [] op.kind = "Invoke" -> {op.arguments[i] : i \in 1 .. Len(op.arguments)}
      [] op.kind = "InvokedResult" -> {op.invocation}
      [] OTHER -> {}

Users(c, r) == {i \in 0 .. Len(c.ops) - 1 : r \in Reads(c.ops[i + 1])}

SetMax(S) == CHOOSE x \in S : \A y \in S : y <= x

SetMin(S) == CHOOSE x \in S : \A y \in S : x <= y

\* last_use[r] starts at 0 and takes the maximum over the ops updating r.
last_use(c, r) == SetMax(Users(c, r) \cup {0})

\* first_use[r] starts at steps and takes the minimum over the ops updating r.
first_use(c, r) == SetMin(Users(c, r) \cup {Len(c.ops)})

(***************************************************************************)
(* Monomorphizing: the work stack, the function indices, the knobs.        *)
(***************************************************************************)
LinkedMonomorphicSignature(link_idx, tys) == [link_idx |-> link_idx, tys |-> tys]

\* The entry of the map `monomorphic` for a signature, 0 if there is none.
MonomorphicEntry(mono, sig) ==
    IF \E i \in 1 .. Len(mono.monomorphic) : mono.monomorphic[i].sig = sig
    THEN CHOOSE i \in 1 .. Len(mono.monomorphic) : mono.monomorphic[i].sig = sig
    ELSE 0

\* A push_function that never consults the map `monomorphic`.
push_function_always(mono, sig) ==
    LET idx == Len(mono.monomorphic)
    IN  IF sig.link_idx >= Len(mono.commands)
        THEN [status |-> "Panic", function |-> -1, mono |-> mono]
        ELSE [status |-> "Ok", function |-> idx,
              mono |-> [mono EXCEPT
                  !.stack = Append(@, [link_idx |-> sig.link_idx, tys |-> sig.tys]),
                  !.monomorphic = Append(@, [sig |-> sig, function |-> idx])]]

\* Monomorphizing::push_function: indexing `commands` panics on a link index
\* out of range; a new signature is assigned the next index and pushed on
\* the work stack.
push_function(mono, sig) ==
    LET idx == Len(mono.monomorphic)
        at == MonomorphicEntry(mono, sig)
    IN  IF sig.link_idx >= Len(mono.commands)
        THEN [status |-> "Panic", function |-> -1, mono |-> mono]
        ELSE IF at # 0
        THEN [status |-> "Ok", function |-> mono.monomorphic[at].function,
              mono |-> mono]
        ELSE [status |-> "Ok", function |-> idx,
              mono |-> [mono EXCEPT
                  !.stack = Append(@, [link_idx |-> sig.link_idx, tys |-> sig.tys]),
                  !.monomorphic = Append(@, [sig |-> sig, function |-> idx])]]

\* Monomorphizing::next_knob.
next_knob(mono, register) ==
    [knob |-> mono.next_knob,
     mono |-> [mono EXCEPT
         !.next_knob = @ + 1,
         !.knobs = HashMapInsert(@, <<mono.current_link_id, register>>, mono.next_knob)]]

(***************************************************************************)
(* link_in: the lowering of one op of a command buffer.  `cur` is the      *)
(* state of the link_in call: its type arguments and link list, the index  *)
(* of the next op, the plan of textures and buffers requested so far, the  *)
(* map reg_to_texture and the signature registers.                         *)
(***************************************************************************)
\* ImageBufferPlan::alloc_texture_for: the request is recorded with its
\* descriptor, liveness and register; the texture is the index of the request.
alloc_texture_for(cur, descriptor, liveness, register) ==
    [cur EXCEPT !.textures = Append(@, [register |-> register,
                                        descriptor |-> descriptor,
                                        liveness |-> liveness])]

\* ImageBufferPlan::alloc_buffer_for.
alloc_buffer_for(cur, len, liveness, register) ==
    [cur EXCEPT !.buffers = Append(@, [register |-> register, len |-> len,
                                       liveness |-> liveness])]

\* The closure realize_texture: first_use[idx]..last_use[idx] is the
\* liveness, the descriptor is the one of the source for Output and Render.
realize_texture(c, cur, idx, op) ==
    LET reg == IF op.kind \in {"Output", "Render"} THEN op.src ELSE idx
    IN  alloc_texture_for(cur, Monomorphize(describe_reg(c, reg).desc, cur.tys),
                          <<first_use(c, idx), last_use(c, idx)>>, idx)

\* The closure realize_buffer.
realize_buffer(c, cur, idx) ==
    alloc_buffer_for(cur, describe_reg(c, idx).desc.size.c,
                     <<first_use(c, idx), last_use(c, idx)>>, idx)

\* The knob of the op at idx: a runtime knob takes the next knob id, a
\* buffer knob resolves its register to the buffer assigned to it.
KnobUserFor(c, cur, mono, idx) ==
    IF idx \notin DOMAIN c.knobs
    THEN [status |-> "Ok", knob |-> [k |-> "None"], mono |-> mono]
    ELSE IF c.knobs[idx].kind = "Runtime"
    THEN LET n == next_knob(mono, idx)
         IN  [status |-> "Ok", knob |-> [k |-> "Runtime", knob |-> n.knob],
              mono |-> n.mono]
    ELSE LET assigned == {b \in 1 .. Len(cur.buffers) :
                             cur.buffers[b].register = c.knobs[idx].buffer}
         IN  IF assigned = {}
             THEN [status |-> "Err", knob |-> [k |-> "None"], mono |-> mono]
             ELSE [status |-> "Ok",
                   knob |-> [k |-> "Buffer", buffer |-> SetMax(assigned) - 1,
                             len |-> c.knobs[idx].len],
                   mono |-> mono]

Discard(texture) == [t |-> "Discard", texture |-> texture]

Load(texture) == [t |-> "Load", texture |-> texture]

PushOperand(texture) == [h |-> "PushOperand", texture |-> texture]

\* High::DrawInto with Initializer::PaintFullScreen.
PaintFullScreen(dst, shader, knob) ==
    [h |-> "DrawInto", dst |-> dst, init |-> "PaintFullScreen",
     shader |-> shader, knob |-> knob]

\* High::DrawInto with Initializer::PaintToSelection.
PaintToSelection(dst, texture, selection, target, viewport, shader, knob) ==
    [h |-> "DrawInto", dst |-> dst, init |-> "PaintToSelection",
     shader |-> shader, knob |-> knob, texture |-> texture,
     selection |-> selection, target |-> target, viewport |-> viewport]

\* As LowerConstruct, but a construct under a runtime knob is painted over
\* the previous content of its texture.
LowerConstructKeeping(op, idx, t, knob) ==
    LET dst == IF knob.k = "Runtime" THEN Load(t) ELSE Discard(t)
    IN  CASE op.op.tag = "DistributionNormal" ->
                <<PaintFullScreen(dst, Shader("Normal2d"), knob)>>
          [] op.op.tag = "FromBuffer" ->
                <<[h |-> "Copy", src |-> op.op.buffer, dst |-> idx]>>
          [] op.op.tag = "DistributionNoise" ->
                <<PaintFullScreen(dst, Shader("FractalNoise"), knob)>>
          [] op.op.tag = "Bilinear" ->
                <<PaintFullScreen(dst, Shader("Bilinear"), knob)>>
          [] op.op.tag = "Solid" ->
                <<PaintFullScreen(dst, Shader("SolidRgb"), knob)>>

\* The ops a Construct lowers to, its texture being t.
LowerConstruct(op, idx, t, knob) ==
    CASE op.op.tag = "DistributionNormal" ->
            <<PaintFullScreen(Discard(t), Shader("Normal2d"), knob)>>
      [] op.op.tag = "FromBuffer" ->
            <<[h |-> "Copy", src |-> op.op.buffer, dst |-> idx]>>
      [] op.op.tag = "DistributionNoise" ->
            <<PaintFullScreen(Discard(t), Shader("FractalNoise"), knob)>>
      [] op.op.tag = "Bilinear" ->
            <<PaintFullScreen(Discard(t), Shader("Bilinear"), knob)>>
      [] op.op.tag = "Solid" ->
            <<PaintFullScreen(Discard(t), Shader("SolidRgb"), knob)>>

\* Whether the lowering of a Unary returns Err before pushing its ops.
UnaryFails(op) ==
    \/ op.op.tag = "ChromaticAdaptation" /\ ~AdaptationHasMatrix(op.op.method)
    \/ op.op.tag = "Derivative" /\ ~DerivativeHasShader(op.op.method)

\* The ops a Unary lowers to, its texture being t and its source texture s.
LowerUnary(op, idx, t, s, knob) ==
    CASE op.op.tag = "Crop" ->
            LET target == RectWithWidthHeight(RectWidth(op.op.rect),
                                              RectHeight(op.op.rect))
            IN  <<PushOperand(s),
                  PaintToSelection(Discard(t), s, op.op.rect, target, target,
                                   Shader("PaintOnTop"), knob)>>
      [] op.op.tag = "ChromaticAdaptation" ->
            <<PushOperand(s),
              PaintFullScreen(Discard(t), Shader("LinearColorMatrix"), knob)>>
      [] op.op.tag = "ColorConvert" ->
            <<PushOperand(s),
              PaintFullScreen(Discard(t), ColorConversionShader(op.op.conversion),
                              knob)>>
      [] op.op.tag = "Extract" ->
            <<PushOperand(s), PaintFullScreen(Discard(t), Shader("PaintOnTop"), knob)>>
      [] op.op.tag = "Derivative" ->
            <<PushOperand(s), PaintFullScreen(Discard(t), Shader("Box3"), knob)>>
      [] op.op.tag = "Transmute" ->
            <<[h |-> "Copy", src |-> op.src, dst |-> idx]>>

\* The ops a Binary lowers to: its texture is t, the textures of its
\* operands are l and r, their monomorphized regions lower and upper.
LowerBinary(op, t, l, r, lower, upper, knob) ==
    CASE op.op.tag = "Affine" ->
            <<PushOperand(l),
              PaintToSelection(Discard(t), l, lower, lower, lower,
                               Shader("PaintOnTop"), knob),
              PushOperand(r),
              PaintToSelection(Load(t), r, upper, [affine |-> upper], lower,
                               Shader("PaintOnTop"), knob)>>
      [] op.op.tag = "Inject" ->
            <<PushOperand(l), PushOperand(r),
              PaintFullScreen(Discard(t), Shader("Inject"), knob)>>
      [] op.op.tag = "Inscribe" ->
            <<PushOperand(l),
              PaintToSelection(Discard(t), l, lower, lower, lower,
                               Shader("PaintOnTop"), knob),
              PushOperand(r),
              PaintToSelection(Load(t), r, upper, op.op.placement, lower,
                               Shader("PaintOnTop"), knob)>>
      [] op.op.tag = "Palette" ->
            <<PushOperand(l), PushOperand(r),
              PaintFullScreen(Load(t), Shader("Palette"), knob)>>

\* The texture operands of a DynamicImage.
DynamicArguments(op, cur) ==
    CASE op.call.tag = "Construct" -> <<>>
      [] op.call.tag = "Unary" -> <<cur.reg_to_texture[op.call.src]>>
      [] op.call.tag = "Binary" ->
            <<cur.reg_to_texture[op.call.lhs], cur.reg_to_texture[op.call.rhs]>>

\* The textures link_in realizes for the arguments and results of an Invoke,
\* one more for every register, in order.
RECURSIVE RealizeBindings(_, _, _, _)
RealizeBindings(c, cur, regs, k) ==
    IF k > Len(regs) THEN cur
    ELSE RealizeBindings(c, realize_texture(c, cur, regs[k], c.ops[regs[k] + 1]),
                         regs, k + 1)

\* As CallBindings, but the results are bound before the arguments.
CallBindingsResultsFirst(op, t) ==
    LET regs == op.results \o op.arguments
    IN  [k \in 1 .. Len(regs) |->
            [binding |-> IF k <= Len(op.results) THEN "OutTexture" ELSE "InTexture",
             register |-> regs[k],
             texture |-> t + k - 1]]

\* The image_io of an Invoke: the InTexture bindings of the arguments, then
\* the OutTexture bindings of the results, each with the texture realized
\* for it, t being the first of them.
CallBindings(op, t) ==
    LET regs == op.arguments \o op.results
    IN  [k \in 1 .. Len(regs) |->
            [binding |-> IF k <= Len(op.arguments) THEN "InTexture" ELSE "OutTexture",
             register |-> regs[k],
             texture |-> t + k - 1]]

\* A frame whose Done is pushed before the actions of the op.
FrameDoneFirst(body, idx) ==
    <<[h |-> "StackPush"], [h |-> "Done", reg |-> idx]>> \o body
        \o <<[h |-> "StackPop"]>>

\* The High ops of one IR op: StackPush at the head of the loop body, the
\* actions of the op, then Done(Register(idx)) and StackPop at its end.
Frame(body, idx) ==
    <<[h |-> "StackPush"]>> \o body
        \o <<[h |-> "Done", reg |-> idx], [h |-> "StackPop"]>>

\* One iteration of the loop of link_in over the ops: the op at idx is
\* lowered to a frame of High ops, or link_in returns Err, or it panics.
LowerOp(c, cur, mono, idx) ==
    LET op == c.ops[idx + 1]
        kn == KnobUserFor(c, cur, mono, idx)
        knob == kn.knob
        t == Len(cur.textures)
        real == realize_texture(c, cur, idx, op)
        withReg == [real EXCEPT !.reg_to_texture = HashMapInsert(@, idx, t)]
        Lowered(cur2, mono2, body) ==
            [status |-> "Ok", high |-> Frame(body, idx),
             cur |-> cur2, mono |-> mono2]
        Failed(status) ==
            [status |-> status, high |-> <<>>, cur |-> cur, mono |-> mono]
    IN
    IF kn.status # "Ok" THEN Failed("Err")
    ELSE CASE op.kind = "Input" ->
            Lowered([withReg EXCEPT !.signature_in = Append(@, idx)], kn.mono,
                    <<[h |-> "Input", reg |-> idx]>>)
      [] op.kind = "Output" ->
            Lowered([real EXCEPT !.signature_out = Append(@, idx)], kn.mono,
                    <<[h |-> "Output", src |-> op.src, dst |-> idx]>>)
      [] op.kind = "Render" ->
            Lowered(real, kn.mono, <<[h |-> "Render", src |-> op.src, dst |-> idx]>>)
      [] op.kind = "Construct" ->
            Lowered(withReg, kn.mono, LowerConstruct(op, idx, t, knob))
      [] op.kind = "BufferInit" ->
            IF knob.k = "Buffer" THEN Failed("Panic")
            ELSE LET buffer == Len(cur.buffers) IN
                 Lowered(realize_buffer(c, cur, idx), kn.mono,
                         <<[h |-> "WriteInto", dst |-> buffer, write |-> "Zero"],
                           [h |-> "WriteInto", dst |-> buffer, write |-> "Put",
                            knob |-> knob]>>)
      [] op.kind = "Unary" ->
            IF UnaryFails(op) THEN Failed("Err")
            ELSE Lowered(withReg, kn.mono,
                         LowerUnary(op, idx, t, cur.reg_to_texture[op.src], knob))
      [] op.kind = "Binary" ->
            Lowered(withReg, kn.mono,
                    LowerBinary(op, t, cur.reg_to_texture[op.lhs],
                                cur.reg_to_texture[op.rhs],
                                RectWithLayout(Monomorphize(
                                    describe_reg(c, op.lhs).desc, cur.tys).layout),
                                RectWithLayout(Monomorphize(
                                    describe_reg(c, op.rhs).desc, cur.tys).layout),
                                knob))
      [] op.kind = "DynamicImage" ->
            LET arguments == DynamicArguments(op, cur) IN
            IF op.num_args # Len(arguments) THEN Failed("Err")
            ELSE Lowered(withReg, kn.mono,
                         [i \in 1 .. Len(arguments) |-> PushOperand(arguments[i])]
                            \o <<PaintFullScreen(Discard(t),
                                                 RuntimeShader(op.num_args), knob)>>)
      [] op.kind = "InvokedResult" ->
            Lowered(withReg, kn.mono, <<[h |-> "Uninit", dst |-> Discard(t)]>>)
      [] op.kind = "Invoke" ->
            IF op.function >= Len(cur.links) THEN Failed("Err")
            ELSE
            LET monomorphic_tys ==
                    [i \in 1 .. Len(op.generics) |->
                        Monomorphize(op.generics[i], cur.tys)]
                pushed == push_function(kn.mono,
                              LinkedMonomorphicSignature(
                                  cur.links[op.function + 1], monomorphic_tys))
                regs == op.arguments \o op.results
            IN
            IF pushed.status # "Ok" THEN Failed("Panic")
            ELSE IF \E k \in 1 .. Len(regs) : regs[k] >= idx THEN Failed("Err")
            ELSE Lowered(RealizeBindings(c, cur, regs, 1), pushed.mono,
                         <<[h |-> "Call", function |-> pushed.function,
                            image_io_buffers |-> CallBindings(op, t)]>>)
      [] OTHER -> Failed("Err")

(***************************************************************************)
(* CommandBuffer::link, step by step.                                      *)
(***************************************************************************)
NoFunction == [active |-> FALSE]

\* link returned: Ok with the program, Err(NotYetImplemented), or a panic.
LinkDone(result) == [lk EXCEPT !.phase = "done", !.result = result]

\* link(tys, functions, links) is called on cmd: the link lists are
\* counted, the entry is pushed as the first function.
Link(tys, functions, links) ==
    /\ lk.phase = "idle"
    /\ last.call = "none"
    /\ LET mono == [stack |-> <<>>, monomorphic |-> <<>>,
                    commands |-> <<cmd>> \o functions, knobs |-> <<>>,
                    next_knob |-> 0, current_link_id |-> 0]
           called == [phase |-> "linking", tys |-> tys, links |-> links,
                      mono |-> mono, high_ops |-> <<>>, functions |-> <<>>,
                      cur |-> NoFunction, result |-> "None"]
       IN  lk' = IF Len(functions) + 1 < Len(links)
                 THEN [called EXCEPT !.phase = "done", !.result = "Err"]
                 ELSE [called EXCEPT !.mono =
                         push_function(mono,
                             LinkedMonomorphicSignature(0, tys)).mono]
    /\ UNCHANGED <<cmd, limit, last, surface>>

\* while let Some(top) = stack.pop(): link_in is entered for the function
\* on top of the stack and checks the counts of its links and type arguments.
LinkPop ==
    /\ lk.phase = "linking"
    /\ ~lk.cur.active
    /\ lk.mono.stack # <<>>
    /\ LET top == lk.mono.stack[Len(lk.mono.stack)]
           command == lk.mono.commands[top.link_idx + 1]
           links == IF top.link_idx < Len(lk.links)
                    THEN lk.links[top.link_idx + 1] ELSE <<>>
           popped == [lk.mono EXCEPT
                         !.stack = SubSeq(@, 1, Len(@) - 1),
                         !.current_link_id = top.link_idx]
       IN  lk' = IF Len(links) # Len(command.symbols) \/ Len(top.tys) # command.vars
                 THEN LinkDone("Err")
                 ELSE [lk EXCEPT
                         !.mono = popped,
                         !.cur = [active |-> TRUE, link_idx |-> top.link_idx,
                                  tys |-> top.tys, links |-> links, idx |-> 0,
                                  start |-> Len(lk.high_ops), textures |-> <<>>,
                                  buffers |-> <<>>, reg_to_texture |-> <<>>,
                                  signature_in |-> <<>>, signature_out |-> <<>>]]
    /\ UNCHANGED <<cmd, limit, last, surface>>

\* The loop of link_in lowers the next op of the current function.
LinkIn ==
    /\ lk.phase = "linking"
    /\ lk.cur.active
    /\ lk.cur.idx < Len(lk.mono.commands[lk.cur.link_idx + 1].ops)
    /\ LET r == LowerOp(lk.mono.commands[lk.cur.link_idx + 1], lk.cur, lk.mono,
                        lk.cur.idx)
       IN  lk' = IF r.status # "Ok" THEN LinkDone(r.status)
                 ELSE [lk EXCEPT !.mono = r.mono,
                                 !.high_ops = @ \o r.high,
                                 !.cur = [r.cur EXCEPT !.idx = @ + 1]]
    /\ UNCHANGED <<cmd, limit, last, surface>>

\* link_in returns the FunctionLinked, which link pushes to `functions`;
\* `of` remembers the signature it was lowered for.
LinkPush ==
    /\ lk.phase = "linking"
    /\ lk.cur.active
    /\ lk.cur.idx = Len(lk.mono.commands[lk.cur.link_idx + 1].ops)
    /\ lk' = [lk EXCEPT
                !.functions = Append(@,
                    [ops |-> <<lk.cur.start, Len(lk.high_ops)>>,
                     image_buffers |-> [textures |-> lk.cur.textures,
                                        buffers |-> lk.cur.buffers],
                     signature_registers |->
                         lk.cur.signature_in \o lk.cur.signature_out,
                     of |-> LinkedMonomorphicSignature(lk.cur.link_idx, lk.cur.tys)]),
                !.cur = NoFunction]
    /\ UNCHANGED <<cmd, limit, last, surface>>

\* The stack is empty: link returns Ok(Program { ops: high_ops, functions,
\* entry_index: 0, knobs }).
LinkReturn ==
    /\ lk.phase = "linking"
    /\ ~lk.cur.active
    /\ lk.mono.stack = <<>>
    /\ lk' = LinkDone("Ok")
    /\ UNCHANGED <<cmd, limit, last, surface>>

(***************************************************************************)
(* Builder calls on a command buffer that already holds registers.         *)
(***************************************************************************)
\* Inputs of concrete descriptors: r0 : DA, r1 : DC, r2 : DS.
PreludeConcrete == input(input(input(EmptyBuffer, DA).cmd, DC).cmd, DS).cmd

\* One generic variable T; r0 : T, r1 : DA, r2 has the size of T and the
\* chroma of DA, r3 has the size of DA and the chroma of T.
PreludeGeneric ==
    LET c1 == input(input_generic(generic(EmptyBuffer).cmd, 0).cmd, DA).cmd
        cfg == [width |-> "R", height |-> "G"]
    IN  palette(palette(c1, 1, cfg, 0).cmd, 0, cfg, 1).cmd

Preludes == {PreludeConcrete, PreludeGeneric}

InitPrelude ==
    /\ cmd \in Preludes
    /\ limit = Entries(cmd) + MaxOps
    /\ last = NoCall
    /\ lk = LinkIdle
    /\ surface = NoSurface

NextTransmute == Transmute \/ TransmuteGeneric \/ Observe

SpecTransmute == InitPrelude /\ [][NextTransmute]_vars

NextInscribe == Inscribe \/ KnobInscribe \/ Observe

SpecInscribe == InitPrelude /\ [][NextInscribe]_vars

(***************************************************************************)
(* Linking: command buffers with invocations, and the arguments of link.   *)
(***************************************************************************)
\* r0 is a buffer of the size of the largest parameter block, r1 : DA.
PreludeBuffer == input(buffer_zero(EmptyBuffer, BilinearDataLen).cmd, DA).cmd

\* fn(image: DA) -> DA invoking one declared function on its input and
\* returning the result.
ProgCallOne ==
    LET c1 == function(EmptyBuffer, computed_signature(FnIdentity)).cmd
        c2 == input(c1, DA).cmd
        c3 == invoke(c2, 0, <<>>, <<0>>).cmd
    IN  output(c3, 1).cmd

\* Two declared functions, fn(DA) -> DA and fn<T>(T) -> T, both invoked on
\* the input r0 : DA, the second at the descriptor of r0.
ProgCallTwo ==
    LET c1 == function(EmptyBuffer, computed_signature(FnIdentity)).cmd
        c2 == function(c1, computed_signature(FnGeneric)).cmd
        c3 == input(c2, DA).cmd
        c4 == register_descriptor(c3, 0).cmd
        c5 == invoke(c4, 0, <<>>, <<0>>).cmd
    IN  invoke(c5, 1, <<0>>, <<0>>).cmd

\* One declared function fn<T>(T) -> T invoked at the descriptors of two
\* inputs, r0 : DA and r1 : DS.
ProgCallGenericTwice ==
    LET c1 == function(EmptyBuffer, computed_signature(FnGeneric)).cmd
        c2 == input(input(c1, DA).cmd, DS).cmd
        c3 == register_descriptor(register_descriptor(c2, 0).cmd, 1).cmd
        c4 == invoke(c3, 0, <<0>>, <<0>>).cmd
    IN  invoke(c4, 0, <<1>>, <<1>>).cmd

LinkPrograms ==
    {PreludeConcrete, PreludeGeneric, PreludeBuffer,
     ProgCallOne, ProgCallTwo, ProgCallGenericTwice}

\* The other command buffers and the link lists handed to link.
Linkage(functions, links) == [functions |-> functions, links |-> links]

Linkages ==
    {Linkage(<<>>, <<>>),
     Linkage(<<FnIdentity>>, <<<<1>>>>),
     Linkage(<<FnGenericKnob>>, <<<<1>>>>),
     Linkage(<<FnIdentity, FnGenericKnob>>, <<<<1, 2>>>>),
     Linkage(<<ProgCallOne, FnIdentity>>, <<<<1>>, <<2>>>>),
     Linkage(<<>>, <<<<0>>>>),
     Linkage(<<>>, <<<<>>, <<>>>>),
     Linkage(<<FnIdentity>>, <<<<>>>>),
     Linkage(<<FnIdentity>>, <<<<5>>>>),
     Linkage(<<FnIdentity>>, <<<<1, 5>>>>)}

\* The type arguments handed to link: one descriptor per generic variable,
\* or one too many or too few.
LinkTypeArguments(c) ==
    [1 .. c.vars -> {DA, DS}] \cup {IF c.vars = 0 THEN <<DA>> ELSE <<>>}

LinkCall ==
    \E tys \in LinkTypeArguments(cmd), l \in Linkages :
        Link(tys, l.functions, l.links)

LinkOps == 1

InitLink ==
    /\ cmd \in LinkPrograms
    /\ limit = Entries(cmd) + LinkOps
    /\ last = NoCall
    /\ lk = LinkIdle
    /\ surface = NoSurface

NextLink == Next \/ LinkCall \/ LinkPop \/ LinkIn \/ LinkPush \/ LinkReturn

SpecLink == InitLink /\ [][NextLink]_vars

(***************************************************************************)
(* Properties of the builders.                                             *)
(***************************************************************************)
\* C1: a builder call that returns Err leaves the command buffer exactly as
\* it was before the call: no op, descriptor variable, symbol or knob added.
C1_ErrLeavesBufferUnchanged ==
    (last.call # "none" /\ last.err # "Ok") => cmd = last.before

\* The descriptors of the source register and of the target of the
\* transmute call that returned last.
TransmuteSource == describe_reg(last.before, last.args[1]).desc

TransmuteTarget ==
    IF last.call = "transmute" THEN FromDescriptor(last.args[2]) ELSE last.args[2]

TransmuteCalled ==
    /\ last.call \in {"transmute", "transmute_generic"}
    /\ IsTexture(last.before, last.args[1])

\* C8: transmute_generic of a texture register succeeds exactly when the
\* sizes are equal and the chromas are both concrete with equal texel byte
\* size or the same generic variable (a concrete target being consistent);
\* every Transmute op of the buffer has the size of its source, and a
\* chroma of the texel byte size of its source.
C8_TransmuteExactlyWhenCompatible ==
    /\ TransmuteCalled =>
         LET a == TransmuteSource
             b == TransmuteTarget
         IN  (last.err = "Ok") <=>
               /\ a.size = b.size
               /\ \/ /\ a.chroma.g = "Concrete" /\ b.chroma.g = "Concrete"
                     /\ TexelBytes(a.chroma.c.texel) = TexelBytes(b.chroma.c.texel)
                  \/ /\ a.chroma.g = "Generic" /\ b.chroma.g = "Generic"
                     /\ a.chroma.var = b.chroma.var
               /\ AsConcrete(b).some => IsConsistent(AsConcrete(b).desc)
    /\ \A i \in 1 .. Len(cmd.ops) :
         (cmd.ops[i].kind = "Unary" /\ cmd.ops[i].op.tag = "Transmute") =>
            LET a == cmd.ops[cmd.ops[i].src + 1].desc
                b == cmd.ops[i].desc
            IN  /\ a.size.g = b.size.g
                /\ a.size = b.size
                /\ a.chroma.g = b.chroma.g
                /\ IF a.chroma.g = "Concrete"
                   THEN TexelBytes(a.chroma.c.texel) = TexelBytes(b.chroma.c.texel)
                   ELSE a.chroma.var = b.chroma.var

\* A transmute between two concrete chromas of equal byte size but
\* different texels was accepted, on a buffer in which a transmute of a
\* generic chroma had been accepted before.
C8_Witness ==
    /\ TransmuteCalled
    /\ last.err = "Ok"
    /\ TransmuteSource.chroma.g = "Concrete"
    /\ TransmuteSource.chroma # TransmuteTarget.chroma
    /\ \E i \in 1 .. Len(last.before.ops) :
         /\ last.before.ops[i].kind = "Unary"
         /\ last.before.ops[i].op.tag = "Transmute"
         /\ last.before.ops[i].desc.chroma.g = "Generic"

\* The transmute call that returned last had a concrete source and a
\* concrete target of the same width and height, the texels of different
\* byte size.
TransmuteToOtherByteSize ==
    /\ TransmuteCalled
    /\ AsConcrete(TransmuteSource).some
    /\ AsConcrete(TransmuteTarget).some
    /\ TransmuteSource.size.c = TransmuteTarget.size.c
    /\ TexelBytes(TransmuteSource.chroma.c.texel)
         # TexelBytes(TransmuteTarget.chroma.c.texel)

\* C9, as stated: such a transmute fails with BadDescriptor, reason
\* "mismatched size", and appends no op.
C9_FailsWithBadDescriptor ==
    TransmuteToOtherByteSize =>
        /\ last.err = "BadDescriptor"
        /\ last.reason = "invalid transmute with mismatched size"
        /\ cmd = last.before

\* C9, amended: such a transmute fails with ConflictingTypes and appends
\* no op.
C9_FailsWithConflictingTypes ==
    TransmuteToOtherByteSize =>
        /\ last.err = "ConflictingTypes"
        /\ cmd = last.before

\* A transmute of the 4-byte RgbA8 input to the 1-byte Luma8 descriptor of
\* the same width and height returned.
C9_Witness ==
    /\ TransmuteToOtherByteSize
    /\ last.call = "transmute"
    /\ TransmuteSource = FromDescriptor(DA)
    /\ last.args[2] = DC

\* The concrete descriptors generic variables are instantiated with.
DT == WithTexel(RgbA8, "Srgb", 1, 1)

TypeArguments == {DA, DS, DT}

\* C10: every successful inscribe(below, rect, above) has rect equal to the
\* rectangle of the layout of above and contained in the rectangle of the
\* layout of below, whatever the generic variables of below stand for, and
\* the Inscribe op it appends to the command buffer holds that rectangle.
C10_InscribeWithinBelow ==
    (last.call \in {"inscribe", "with_knob.inscribe"} /\ last.err = "Ok") =>
        LET below == describe_reg(last.before, last.args[1]).desc
            rect == last.args[2]
            above == describe_reg(last.before, last.args[3]).desc
        IN  /\ cmd.ops[last.val + 1].op.placement = rect
            /\ \A tys \in [1 .. last.before.vars -> TypeArguments] :
                  /\ rect = RectWithLayout(Monomorphize(above, tys).layout)
                  /\ RectContains(RectWithLayout(Monomorphize(below, tys).layout), rect)

(***************************************************************************)
(* Properties of link.                                                     *)
(***************************************************************************)
\* link returned Ok(Program): ops is lk.high_ops, functions lk.functions,
\* knobs lk.mono.knobs.
Linked == lk.phase = "done" /\ lk.result = "Ok"

\* The DrawInto ops of the program.
DrawIntos == {p \in 1 .. Len(lk.high_ops) : lk.high_ops[p].h = "DrawInto"}

\* C2: in every Program produced by link each DrawInto op is immediately
\* preceded by exactly num_args PushOperand ops of its own frame, num_args
\* being that of its shader: the op before those pushes is the StackPush of
\* the frame or an earlier DrawInto of it.
C2_PushOperandsPrecedeDrawInto ==
    Linked =>
        \A p \in DrawIntos :
            LET n == NumArgs(lk.high_ops[p].shader)
            IN  /\ p - n > 1
                /\ \A k \in 1 .. n : lk.high_ops[p - k].h = "PushOperand"
                /\ lk.high_ops[p - n - 1].h \in {"StackPush", "DrawInto"}

\* A linked program that paints with a dynamic shader of one argument and
\* with the palette shader of two.
C2_Witness ==
    /\ Linked
    /\ \E p \in DrawIntos :
         /\ lk.high_ops[p].shader.invocation = "Runtime"
         /\ lk.high_ops[p].shader.num_args = 1
    /\ \E p \in DrawIntos : lk.high_ops[p].shader.invocation = "Palette"

\* C3: every liveness interval handed to the planner for a register r that
\* a later op reads has first_use(r) <= r < last_use(r), r being the index
\* of the op defining it; a register no op reads gets an empty interval.
C3_LivenessCoversDefinition ==
    lk.phase # "idle" =>
        \A i \in 1 .. Len(lk.functions) :
            LET c == lk.mono.commands[lk.functions[i].of.link_idx + 1]
                textures == lk.functions[i].image_buffers.textures
            IN  \A t \in 1 .. Len(textures) :
                    LET r == textures[t].register
                        liveness == textures[t].liveness
                    IN  IF Users(c, r) # {}
                        THEN liveness[1] <= r /\ r < liveness[2]
                        ELSE liveness[1] >= liveness[2]

\* The link list of the command buffer link_idx: links.get(link_idx), or
\* the empty default.
LinkList(link_idx) ==
    IF link_idx < Len(lk.links) THEN lk.links[link_idx + 1] ELSE <<>>

\* The key link was called for.
EntryKey == LinkedMonomorphicSignature(0, lk.tys)

\* The Call ops, each with the lowered function whose range holds it.
CallSites ==
    {s \in (1 .. Len(lk.functions)) \X (1 .. Len(lk.high_ops)) :
        /\ lk.high_ops[s[2]].h = "Call"
        /\ s[2] > lk.functions[s[1]].ops[1]
        /\ s[2] <= lk.functions[s[1]].ops[2]}

\* The key of a Call: the Invoke it was lowered from is the op its frame is
\* Done for; the callee is resolved through the link list of the caller, the
\* type arguments are monomorphized under those of the caller.
CalleeKey(s) ==
    LET caller == lk.functions[s[1]].of
        op == lk.mono.commands[caller.link_idx + 1].ops[lk.high_ops[s[2] + 1].reg + 1]
    IN  LinkedMonomorphicSignature(
            LinkList(caller.link_idx)[op.function + 1],
            [k \in 1 .. Len(op.generics) |->
                Monomorphize(op.generics[k], caller.tys)])

CalledFunction(s) == lk.high_ops[s[2]].function

\* C4: each key (link_idx, type arguments) has one Function index: Calls of
\* the same key carry the same Function, Calls of different keys different
\* ones, only Calls of the entry's key carry the Function of the entry, no
\* key is lowered twice, and a linked program has as many functions as
\* there are keys reached, the entry included.
C4_OneFunctionPerKey ==
    lk.phase # "idle" =>
        /\ \A s \in CallSites, t \in CallSites :
              (CalleeKey(s) = CalleeKey(t)) <=> (CalledFunction(s) = CalledFunction(t))
        /\ \A s \in CallSites : (CalleeKey(s) = EntryKey) <=> (CalledFunction(s) = 0)
        /\ \A i \in 1 .. Len(lk.functions), j \in 1 .. Len(lk.functions) :
              i # j => lk.functions[i].of # lk.functions[j].of
        /\ Linked =>
              Len(lk.functions)
                = Cardinality({EntryKey} \cup {CalleeKey(s) : s \in CallSites})

\* A linked program of at least three functions in which two Invokes have
\* the same key and two have different keys.
C4_Witness ==
    /\ Linked
    /\ Len(lk.functions) >= 3
    /\ \E s \in CallSites, t \in CallSites : s # t /\ CalleeKey(s) = CalleeKey(t)
    /\ \E s \in CallSites, t \in CallSites : CalleeKey(s) # CalleeKey(t)

\* The ops of the program that carry a runtime knob.
RuntimeKnobOps ==
    {p \in 1 .. Len(lk.high_ops) :
        /\ \/ lk.high_ops[p].h = "DrawInto"
           \/ lk.high_ops[p].h = "WriteInto" /\ lk.high_ops[p].write = "Put"
        /\ lk.high_ops[p].knob.k = "Runtime"}

\* C5: in every linked Program the knob ids of program.knobs are 0..n-1,
\* each once, and every op with a runtime knob k has
\* k < program.knobs.len().
C5_KnobIdsDense ==
    Linked =>
        LET knobs == lk.mono.knobs
            n == Cardinality(DOMAIN knobs)
        IN  /\ {knobs[x] : x \in DOMAIN knobs} = 0 .. n - 1
            /\ \A p \in RuntimeKnobOps : lk.high_ops[p].knob.knob < n

\* C6: in every linked Program functions[0] is the primary buffer lowered
\* at the type arguments of link, and the Function(i) of every Call has
\* functions[i] the callee of its Invoke, lowered at the Invoke's
\* monomorphized type arguments.
C6_CallDesignatesCallee ==
    Linked =>
        /\ lk.functions[1].of = EntryKey
        /\ \A s \in CallSites :
              /\ CalledFunction(s) < Len(lk.functions)
              /\ lk.functions[CalledFunction(s) + 1].of = CalleeKey(s)

\* The Invoke ops of the primary buffer.
PrimaryInvokes ==
    LET c == lk.mono.commands[1]
    IN  {c.ops[i] : i \in {j \in 1 .. Len(c.ops) : c.ops[j].kind = "Invoke"}}

\* C7: link returns Err(NotYetImplemented), never panicking, when there
\* are more link lists than command buffers, when the link list of the
\* primary differs in length from its declared functions, when the type
\* arguments differ in number from its generic variables, when one of its
\* Invokes has no entry in the link list, or when the entry of one of its
\* Invokes names no command buffer.
C7_LinkErrorsAreErr ==
    (/\ lk.phase = "done"
     /\ \/ Len(lk.links) > Len(lk.mono.commands)
        \/ Len(LinkList(0)) # Len(lk.mono.commands[1].symbols)
        \/ Len(lk.tys) # lk.mono.commands[1].vars
        \/ \E op \in PrimaryInvokes : op.function >= Len(LinkList(0))
        \/ \E op \in PrimaryInvokes :
              /\ op.function < Len(LinkList(0))
              /\ LinkList(0)[op.function + 1] >= Len(lk.mono.commands))
    => lk.result = "Err"

(***************************************************************************)
(* compile: inscribing, declaring the output, compiling.                   *)
(***************************************************************************)
\* CommandBuffer::compile: link without type arguments, functions or links.
Compile == Link(<<>>, <<>>, <<>>)

CompileOps == 2

InitCompile ==
    /\ cmd \in Preludes
    /\ limit = Entries(cmd) + CompileOps
    /\ last = NoCall
    /\ lk = LinkIdle
    /\ surface = NoSurface

NextCompile ==
    \/ Inscribe \/ KnobInscribe \/ Output \/ Observe
    \/ Compile \/ LinkPop \/ LinkIn \/ LinkPush \/ LinkReturn

SpecCompile == InitCompile /\ [][NextCompile]_vars

IsInscribe(op) == op.kind = "Binary" /\ op.op.tag = "Inscribe"

\* The buffer compiled: inputs, at least one inscribe, outputs of inscribes.
InscribeProgram(c) ==
    /\ \A i \in 1 .. Len(c.ops) :
          \/ c.ops[i].kind = "Input"
          \/ IsInscribe(c.ops[i])
          \/ c.ops[i].kind = "Output" /\ IsInscribe(c.ops[c.ops[i].src + 1])
    /\ \E i \in 1 .. Len(c.ops) : IsInscribe(c.ops[i])
    /\ \E i \in 1 .. Len(c.ops) : c.ops[i].kind = "Output"

\* C11: a successful inscribe(below, rect, above) gives its result register
\* the descriptor of below, output of that register reports the same
\* descriptor, and compile of a buffer of inputs, inscribes and their
\* outputs returns Ok.
C11_InscribeResultIsBelow ==
    /\ (last.call \in {"inscribe", "with_knob.inscribe"} /\ last.err = "Ok") =>
          describe_reg(cmd, last.val).desc
            = describe_reg(last.before, last.args[1]).desc
    /\ (/\ last.call = "output" /\ last.err = "Ok"
        /\ IsInscribe(last.before.ops[last.args[1] + 1])) =>
          last.val.outformat
            = describe_reg(last.before,
                           last.before.ops[last.args[1] + 1].lhs).desc
    /\ (lk.phase = "done" /\ InscribeProgram(cmd)) => lk.result = "Ok"

\* A buffer of three inputs, an inscribe of the 1x2 image into the 2x2 one
\* and the output of the result was compiled.
C11_Witness ==
    /\ Linked
    /\ InscribeProgram(cmd)
    /\ \E i \in 1 .. Len(cmd.ops) :
          /\ IsInscribe(cmd.ops[i])
          /\ cmd.ops[i].desc # cmd.ops[cmd.ops[i].rhs + 1].desc

(***************************************************************************)
(* The rectangle algebra, applied to all rectangles of the explored width. *)
(***************************************************************************)
AllRectangles ==
    {Rectangle(x, y, max_x, max_y) :
        x \in 0 .. CoordMax, y \in 0 .. CoordMax,
        max_x \in 0 .. CoordMax, max_y \in 0 .. CoordMax}

\* A method of Rectangle was called on the receiver and returned val.
RectCall(name, args, val) ==
    /\ last' = [call |-> name, args |-> args, err |-> "Ok", reason |-> "",
                val |-> val, before |-> EmptyBuffer]
    /\ UNCHANGED <<cmd, limit, lk, surface>>

\* The rectangle the next method is called on.
Receiver == last.args[1]

Meet ==
    /\ last.call = "none"
    /\ \E y \in AllRectangles :
          RectCall("Rectangle::meet", <<Receiver, y>>, RectMeet(Receiver, y))

Join ==
    /\ last.call = "none"
    /\ \E y \in AllRectangles :
          RectCall("Rectangle::join", <<Receiver, y>>, RectJoin(Receiver, y))

Contains ==
    /\ last.call = "none"
    /\ \E y \in AllRectangles :
          RectCall("Rectangle::contains", <<Receiver, y>>,
                   RectContains(Receiver, y))

Normalize ==
    /\ last.call = "none"
    /\ \E out \in NormalizeOutcomes(Receiver) :
          RectCall("Rectangle::normalize", <<Receiver>>, out)

Inset ==
    /\ last.call = "none"
    /\ \E border \in 0 .. CoordMax :
          RectCall("Rectangle::inset", <<Receiver, border>>,
                   RectInset(Receiver, border))

InitRect ==
    /\ cmd = EmptyBuffer
    /\ limit = 0
    /\ \E self \in AllRectangles : last = [NoCall EXCEPT !.args = <<self>>]
    /\ lk = LinkIdle
    /\ surface = NoSurface

NextRect == Meet \/ Join \/ Contains \/ Normalize \/ Inset

SpecRect == InitRect /\ [][NextRect]_vars

\* C12: Rectangle::meet is commutative, associative and idempotent on all
\* rectangles, the empty ones (a maximum below its minimum) included.
C12_MeetLaws ==
    last.call = "Rectangle::meet" =>
        LET x == last.args[1]
            y == last.args[2]
        IN  /\ last.val = RectMeet(y, x)
            /\ \A z \in AllRectangles :
                  RectMeet(last.val, z) = RectMeet(x, RectMeet(y, z))
            /\ RectMeet(x, x) = x
            /\ RectMeet(last.val, last.val) = last.val

\* The meet of an empty rectangle with a non-empty one that overlaps its
\* corner was taken.
C12_Witness ==
    /\ last.call = "Rectangle::meet"
    /\ last.args[1].max_x < last.args[1].x
    /\ last.args[2].max_x > last.args[2].x
    /\ last.args[2].max_y > last.args[2].y
    /\ last.val \notin {last.args[1], last.args[2]}

\* C13: x.contains(x.meet(y)) is true for all rectangles x and y, those
\* whose meet is empty included.
C13_ContainsMeet ==
    last.call = "Rectangle::meet" =>
        RectContains(last.args[1], last.val)

\* Neither extent of the rectangle is zero.
NonEmpty(r) == r.max_x > r.x /\ r.max_y > r.y

\* The normal form of a rectangle: each maximum is its minimum plus the
\* extent on the same axis.
NormalizeExpected(r) ==
    Rectangle(r.x, r.y, r.x + RectWidth(r), r.y + RectHeight(r))

\* C14: r.inset(0) equals r.normalize() for every rectangle r, normalize
\* keeps x and y and sets max_x = x + width, max_y = y + height, leaves
\* every non-empty rectangle unchanged and never overflows.
C14_InsetZeroIsNormalize ==
    last.call = "Rectangle::normalize" =>
        LET r == last.args[1]
        IN  /\ ~last.val.panic
            /\ last.val.rect = NormalizeExpected(r)
            /\ last.val.rect = RectInset(r, 0)
            /\ (NonEmpty(r) => last.val.rect = r)

\* C15: for non-empty rectangles a and b with a.contains(b), a.join(b) is a
\* and a.meet(b) is b, and b.contains(a) is false unless b is a.
C15_ContainedJoinMeet ==
    /\ (/\ last.call \in {"Rectangle::join", "Rectangle::meet", "Rectangle::contains"}
        /\ NonEmpty(last.args[1]) /\ NonEmpty(last.args[2])
        /\ RectContains(last.args[1], last.args[2])) =>
          CASE last.call = "Rectangle::join" -> last.val = last.args[1]
            [] last.call = "Rectangle::meet" -> last.val = last.args[2]
            [] OTHER -> last.val = TRUE
    /\ (/\ last.call = "Rectangle::contains"
        /\ NonEmpty(last.args[1]) /\ NonEmpty(last.args[2])
        /\ RectContains(last.args[2], last.args[1])
        /\ last.args[1] # last.args[2]) =>
          last.val = FALSE

\* The join of a rectangle with a smaller one inside it, away from its
\* corner, was taken.
C15_Witness ==
    /\ last.call = "Rectangle::join"
    /\ NonEmpty(last.args[1]) /\ NonEmpty(last.args[2])
    /\ RectContains(last.args[1], last.args[2])
    /\ last.args[2].x > last.args[1].x
    /\ last.args[2].max_y < last.args[1].max_y

(***************************************************************************)
(* Invocations of declared functions.                                      *)
(***************************************************************************)
\* One generic variable T and the descriptor variable of DB; r0 : T,
\* r1 : DA, r2 : DB; the functions FnIdentity, FnGeneric and FnSwap.
PreludeInvoke ==
    LET c1 == input(input(input_generic(generic(EmptyBuffer).cmd, 0).cmd, DA).cmd, DB).cmd
        c2 == register_descriptor(c1, 2).cmd
        c3 == function(c2, computed_signature(FnIdentity)).cmd
        c4 == function(c3, computed_signature(FnGeneric)).cmd
    IN  function(c4, computed_signature(FnSwap)).cmd

\* The sequences of at most two elements of S.
UpToTwo(S) == {<<>>} \cup {<<a>> : a \in S} \cup {<<a, b>> : a, b \in S}

InvokeArguments ==
    /\ CanGrow
    /\ \E f \in 0 .. Len(cmd.symbols),
          generics \in UpToTwo(0 .. Len(cmd.tys)),
          arguments \in UpToTwo(Registers(cmd)) :
           Call("invoke", <<f, generics, arguments>>,
                invoke(cmd, f, generics, arguments))

InvokeOps == 2

InitInvoke ==
    /\ cmd = PreludeInvoke
    /\ limit = Entries(cmd) + InvokeOps
    /\ last = NoCall
    /\ lk = LinkIdle
    /\ surface = NoSurface

NextInvoke == InvokeArguments \/ RegisterDescriptor \/ Observe

SpecInvoke == InitInvoke /\ [][NextInvoke]_vars

\* C16: invoke fails and appends nothing when the function variable is not
\* declared, when the number of arguments differs from the number of
\* signature inputs, when the number of generic arguments differs from the
\* number of type variables of the signature, when a generic argument names
\* an unknown descriptor variable, or when the descriptor of an argument
\* register differs from the parameter descriptor rewritten with the
\* generics.  On success it appends one InvokedResult per signature output,
\* typed by the rewritten output descriptor, followed by one Invoke, and
\* returns exactly the result registers in signature order.
C16_InvokeChecksThenAppends ==
    last.call = "invoke" =>
        LET c == last.before
            f == last.args[1]
            generics == last.args[2]
            arguments == last.args[3]
            n == Len(c.ops)
            declared == f < Len(c.symbols)
            sig == c.symbols[f + 1]
            known == \A i \in 1 .. Len(generics) : generics[i] < Len(c.tys)
            gens == [i \in 1 .. Len(generics) |-> c.tys[generics[i] + 1]]
            Mismatch(i) ==
                \/ ~IsTexture(c, arguments[i])
                \/ ~DescriptorEq(describe_reg(c, arguments[i]).desc,
                                 Rewrite(sig.input[i], gens))
            rejected ==
                \/ ~declared
                \/ Len(arguments) # Len(sig.input)
                \/ Len(generics) # sig.vars
                \/ ~known
                \/ \E i \in 1 .. Len(arguments) : Mismatch(i)
        IN  /\ rejected => last.err # "Ok" /\ cmd = c
            /\ last.err = "Ok" =>
                  LET m == Len(sig.output) IN
                  /\ Len(cmd.ops) = n + m + 1
                  /\ SubSeq(cmd.ops, 1, n) = c.ops
                  /\ \A k \in 1 .. m :
                        /\ cmd.ops[n + k].kind = "InvokedResult"
                        /\ cmd.ops[n + k].desc = Rewrite(sig.output[k], gens)
                        /\ describe_reg(cmd, last.val[k]).desc
                             = Rewrite(sig.output[k], gens)
                  /\ cmd.ops[n + m + 1].kind = "Invoke"
                  /\ cmd.ops[n + m + 1].function = f
                  /\ cmd.ops[n + m + 1].arguments = arguments
                  /\ cmd.ops[n + m + 1].results = last.val
                  /\ last.val = [k \in 1 .. m |-> n + k - 1]
                  /\ cmd.tys = c.tys /\ cmd.symbols = c.symbols
                  /\ cmd.vars = c.vars /\ cmd.knobs = c.knobs

\* A generic function of two outputs was invoked with a concrete generic
\* argument, so that its results are typed by rewritten descriptors.
C16_Witness ==
    /\ last.call = "invoke" /\ last.err = "Ok"
    /\ Len(last.val) = 2
    /\ Len(last.args[2]) = 1
    /\ LET sig == last.before.symbols[last.args[1] + 1]
       IN  describe_reg(cmd, last.val[2]).desc # sig.output[2]

(***************************************************************************)
(* References between the ops of a command buffer.                         *)
(***************************************************************************)
\* The elements of a sequence.
Range(seq) == {seq[i] : i \in 1 .. Len(seq)}

\* The registers an op stores as operands, arguments or results.
OperandRegisters(op) ==
    CASE op.kind \in {"Unary", "BufferUnary", "Output", "Render"} -> {op.src}
      [] op.kind \in {"Binary", "BufferBinary"} -> {op.lhs, op.rhs}
      [] op.kind = "Construct" ->
             IF op.op.tag = "FromBuffer" THEN {op.op.buffer} ELSE {}
      [] op.kind = "DynamicImage" ->
             CASE op.call.tag = "Unary" -> {op.call.src}
               [] op.call.tag = "Binary" -> {op.call.lhs, op.call.rhs}
               [] OTHER -> {}
      [] op.kind = "Invoke" -> Range(op.arguments) \cup Range(op.results)
      [] OTHER -> {}

\* The register an InvokedResult stores: its invocation.
InvocationRegisters(op) ==
    IF op.kind = "InvokedResult" THEN {op.invocation} ELSE {}

\* The buffer register the knob of register reg stores.
KnobRegisters(c, reg) ==
    IF reg \in DOMAIN c.knobs /\ c.knobs[reg].kind = "Buffer"
    THEN {c.knobs[reg].buffer}
    ELSE {}

\* C17 (as stated): every register stored inside an op, the invocation of
\* an InvokedResult and the buffer register of a knob included, has an index
\* strictly smaller than the index of the op that refers to it.
C17_ReferencesPrecede ==
    \A i \in 1 .. Len(cmd.ops) :
        \A r \in OperandRegisters(cmd.ops[i])
                  \cup InvocationRegisters(cmd.ops[i])
                  \cup KnobRegisters(cmd, i - 1) :
            r < i - 1

\* C17 (amended): operands, arguments, results and knob buffers have an
\* index strictly smaller than the index of the op that refers to them; the
\* invocation of an InvokedResult is the one forward reference: it is the
\* index of the Invoke op pushed after the results, which lists the result.
C17_ReferencesPrecedeButInvocation ==
    \A i \in 1 .. Len(cmd.ops) :
        /\ \A r \in OperandRegisters(cmd.ops[i]) \cup KnobRegisters(cmd, i - 1) :
               r >= 0 /\ r < i - 1
        /\ \A r \in InvocationRegisters(cmd.ops[i]) :
               /\ r > i - 1 /\ r < Len(cmd.ops)
               /\ cmd.ops[r + 1].kind = "Invoke"
               /\ i - 1 \in Range(cmd.ops[r + 1].results)

\* An invocation has pushed a result and the Invoke op that refers to it.
C17_Witness ==
    /\ last.call = "invoke" /\ last.err = "Ok"
    /\ \E i \in 1 .. Len(cmd.ops) :
          /\ cmd.ops[i].kind = "Invoke"
          /\ cmd.ops[i].arguments # <<>>
          /\ cmd.ops[i].results # <<>>

(***************************************************************************)
(* The buffer region of a WithBuffer wrapper.                              *)
(***************************************************************************)
StartMax == 9

\* with_buffer(register)?.with_start(start).
WithStart ==
    /\ CanGrow
    /\ \E buf \in Registers(cmd), start \in 0 .. StartMax :
           LET wb == with_buffer(cmd, buf)
           IN  Call("with_buffer.with_start", <<buf, start>>,
                    IF wb.err # "Ok" THEN wb ELSE with_start(cmd, wb.val, start))

WithStartOps == 2

InitWithStart ==
    /\ cmd = PreludeBuffer
    /\ limit = Entries(cmd) + WithStartOps
    /\ last = NoCall
    /\ lk = LinkIdle
    /\ surface = NoSurface

NextWithStart ==
    \/ WithStart \/ BufferInit \/ BufferZero \/ BufferSolidRgba \/ BufferBilinear
    \/ Observe

SpecWithStart == InitWithStart /\ [][NextWithStart]_vars

\* C19: with_start(start) on the wrapper of a buffer register returns an
\* error when start is not a multiple of 4, and otherwise the wrapper with
\* start set to the value supplied and every other field unchanged.
C19_WithStartRetainsStart ==
    (last.call = "with_buffer.with_start"
        /\ with_buffer(last.before, last.args[1]).err = "Ok") =>
        LET wb == with_buffer(last.before, last.args[1]).val
            start == last.args[2]
        IN  IF start % 4 # 0
            THEN last.err # "Ok" /\ cmd = last.before
            ELSE /\ last.err = "Ok"
                 /\ last.val = [wb EXCEPT !.start = start]
                 /\ cmd = last.before

(***************************************************************************)
(* The cache keys of the built-in fragment shaders.                        *)
(***************************************************************************)
\* Option<FragmentShaderKey>.
SomeKey(key) == [some |-> TRUE, key |-> key]

NoKey == [some |-> FALSE]

\* The color matrices the shaders are constructed with.
Matrices == {"to_xyz", "from_xyz"}

\* shaders::oklab::Shader::with_encode and with_decode of the crate of
\* command.rs.
OklabWithEncode(matrix) ==
    [invocation |-> "Oklab", matrix |-> matrix, direction |-> "Encode"]

OklabWithDecode(matrix) ==
    [invocation |-> "Oklab", matrix |-> matrix, direction |-> "Decode"]

\* key and spirv_source of shaders::oklab::Shader in the crate of command.rs.
OklabKey(shader) == SomeKey(<<"OklabTransform", "true">>)

OklabSpirvSource(shader) ==
    IF shader.direction = "Encode" THEN "oklab_encode.frag.v"
    ELSE "oklab_decode.frag.v"

\* The shader modules of ShadersStd and the copy shader of ShadersCore,
\* each named by its field.
ShadersStd ==
    [bilinear |-> "bilinear", box3 |-> "box3", inject |-> "inject",
     linear_color_transform |-> "linear_color_transform",
     oklab_encode |-> "oklab_encode", oklab_decode |-> "oklab_decode",
     palette |-> "palette", solid_rgb |-> "solid_rgb",
     srlab2_encode |-> "srlab2_encode", srlab2_decode |-> "srlab2_decode",
     frag_copy |-> "frag_copy"]

\* oklab::Coding and srlab2::Coding.
Encode(spirv) == [tag |-> "Encode", spirv |-> spirv]

Decode(spirv) == [tag |-> "Decode", spirv |-> spirv]

\* The invocations of crate lib/zosimos, each holding the module of
\* ShadersStd for its shader and direction.
StdInvocations ==
    {[invocation |-> "Oklab", xyz_transform |-> m, direction |-> d] :
        m \in Matrices,
        d \in {Encode(ShadersStd.oklab_encode), Decode(ShadersStd.oklab_decode)}}
    \cup
    {[invocation |-> "SrLab2", matrix |-> m, direction |-> d] :
        m \in Matrices,
        d \in {Encode(ShadersStd.srlab2_encode), Decode(ShadersStd.srlab2_decode)}}
    \cup
    {[invocation |-> "LinearColorMatrix", matrix |-> m,
      spirv |-> ShadersStd.linear_color_transform] : m \in Matrices}
    \cup
    {[invocation |-> "Box3", matrix |-> m, spirv |-> ShadersStd.box3] :
        m \in Matrices}
    \cup
    {[invocation |-> "Palette", spirv |-> ShadersStd.palette],
     [invocation |-> "Bilinear", spirv |-> ShadersStd.bilinear],
     [invocation |-> "Inject", spirv |-> ShadersStd.inject],
     [invocation |-> "SolidRgb", spirv |-> ShadersStd.solid_rgb],
     [invocation |-> "PaintOnTop", spirv |-> ShadersStd.frag_copy]}

\* FragmentShaderData::key of the shaders of crate lib/zosimos.
StdKey(shader) ==
    CASE shader.invocation = "Oklab" ->
             SomeKey(<<"OklabTransform", shader.direction.tag>>)
      [] shader.invocation = "SrLab2" ->
             SomeKey(<<"Srlab2Transform", shader.direction.tag>>)
      [] shader.invocation = "PaintOnTop" ->
             SomeKey(<<"PaintOnTop", shader.spirv>>)
      [] shader.invocation = "SolidRgb" -> NoKey
      [] OTHER -> SomeKey(<<shader.invocation>>)

\* FragmentShaderData::spirv_source of the shaders of crate lib/zosimos.
StdSpirvSource(shader) ==
    IF shader.invocation \in {"Oklab", "SrLab2"} THEN shader.direction.spirv
    ELSE shader.spirv

\* The invocations of the crate of command.rs.
OklabInvocations ==
    {OklabWithEncode(m) : m \in Matrices} \cup {OklabWithDecode(m) : m \in Matrices}

\* key() and spirv_source() of the two invocations a pipeline holds.
ShaderKeys ==
    /\ last.call = "none"
    /\ LET a == last.args[1]
           b == last.args[2]
       IN  IF a \in OklabInvocations
           THEN RectCall("FragmentShaderData::key", <<a, b>>,
                         [key |-> <<OklabKey(a), OklabKey(b)>>,
                          spirv_source |-> <<OklabSpirvSource(a), OklabSpirvSource(b)>>])
           ELSE RectCall("FragmentShaderData::key", <<a, b>>,
                         [key |-> <<StdKey(a), StdKey(b)>>,
                          spirv_source |-> <<StdSpirvSource(a), StdSpirvSource(b)>>])

\* The client takes the keys and sources and keeps the two invocations.
TakeKeys ==
    /\ last.call = "FragmentShaderData::key"
    /\ last' = [NoCall EXCEPT !.args = last.args]
    /\ UNCHANGED <<cmd, limit, lk, surface>>

\* Two invocations of one crate.
InitShaderKeys ==
    /\ cmd = EmptyBuffer
    /\ limit = 0
    /\ \E a, b \in OklabInvocations \cup StdInvocations :
          /\ (a \in OklabInvocations) = (b \in OklabInvocations)
          /\ last = [NoCall EXCEPT !.args = <<a, b>>]
    /\ lk = LinkIdle
    /\ surface = NoSurface

NextShaderKeys == ShaderKeys \/ TakeKeys

SpecShaderKeys == InitShaderKeys /\ [][NextShaderKeys]_vars

\* C20: two built-in shader invocations whose keys are Some and equal have
\* the same spirv_source; an Oklab encode invocation and an Oklab decode
\* invocation do not share a key.
C20_EqualKeysSameSource ==
    last.call = "FragmentShaderData::key" =>
        LET a == last.args[1]
            b == last.args[2]
            key == last.val.key
            source == last.val.spirv_source
        IN  /\ (key[1].some /\ key[2].some /\ key[1].key = key[2].key)
                  => source[1] = source[2]
            /\ (a.invocation = "Oklab" /\ b.invocation = "Oklab"
                   /\ (IF a \in OklabInvocations THEN a.direction
                       ELSE a.direction.tag) = "Encode"
                   /\ (IF b \in OklabInvocations THEN b.direction
                       ELSE b.direction.tag) = "Decode")
                  => ~(key[1].some /\ key[2].some /\ key[1].key = key[2].key)

(***************************************************************************)
(* Lowering with and without runtime knobs.                                *)
(***************************************************************************)
\* The loop of link_in over the ops of c from idx on, run to its end: the
\* High ops pushed and the plan of textures and buffers, or the failure.
RECURSIVE LowerFrom(_, _, _, _, _)
LowerFrom(c, cur, mono, idx, high) ==
    IF idx = Len(c.ops) THEN [status |-> "Ok", high |-> high, cur |-> cur]
    ELSE LET r == LowerOp(c, cur, mono, idx)
         IN  IF r.status # "Ok"
             THEN [status |-> r.status, high |-> high, cur |-> cur]
             ELSE LowerFrom(c, [r.cur EXCEPT !.idx = @ + 1], r.mono, idx + 1,
                            high \o r.high)

\* compile() of a command buffer c that declares no function and no generic:
\* link pushes the entry, pops it and lowers its ops.
CompileEntry(c) ==
    LET mono == [stack |-> <<>>, monomorphic |-> <<>>, commands |-> <<c>>,
                 knobs |-> <<>>, next_knob |-> 0, current_link_id |-> 0]
        pushed == push_function(mono, LinkedMonomorphicSignature(0, <<>>)).mono
        popped == [pushed EXCEPT !.stack = <<>>, !.current_link_id = 0]
        cur == [active |-> TRUE, link_idx |-> 0, tys |-> <<>>, links |-> <<>>,
                idx |-> 0, start |-> 0, textures |-> <<>>, buffers |-> <<>>,
                reg_to_texture |-> <<>>, signature_in |-> <<>>,
                signature_out |-> <<>>]
    IN  LowerFrom(c, cur, popped, 0, <<>>)

\* The command buffer c as built by the same calls without with_knob().
WithoutKnobs(c) == [c EXCEPT !.knobs = <<>>]

KnobOps == 2

InitKnob ==
    /\ cmd \in {PreludeConcrete, PreludeBuffer}
    /\ limit = Entries(cmd) + KnobOps
    /\ last = NoCall
    /\ lk = LinkIdle
    /\ surface = NoSurface

NextKnob ==
    \/ SolidRgba \/ Bilinear \/ ChromaticAdaptation \/ Inscribe \/ BufferInit
    \/ KnobSolidRgba \/ KnobBilinear \/ KnobChromaticAdaptation \/ KnobInscribe
    \/ KnobDistributionNormal2d \/ KnobDistributionFractalNoise
    \/ KnobBufferInit
    \/ Output \/ Observe
    \/ Compile \/ LinkPop \/ LinkIn \/ LinkPush \/ LinkReturn

SpecKnob == InitKnob /\ [][NextKnob]_vars

\* The register whose lowering pushed the High op at position p: the one
\* the next Done marks.
FrameRegister(p) ==
    LET q == CHOOSE q \in p .. Len(lk.high_ops) :
                 /\ lk.high_ops[q].h = "Done"
                 /\ \A j \in p .. q - 1 : lk.high_ops[j].h # "Done"
    IN  lk.high_ops[q].reg

\* C18: the lowering of a buffer whose ops were built through with_knob()
\* is the lowering of the same buffer built without the wrapper, op by op:
\* same kinds in the same order, same textures, buffers, targets and shaders;
\* the streams differ only in the knob fields, Runtime(id) for the ops built
\* through with_knob() where the other stream has None.
C18_KnobsChangeOnlyKnobFields ==
    lk.phase = "done" =>
        LET plain == CompileEntry(WithoutKnobs(cmd))
            SameButKnob(p) ==
                LET h == lk.high_ops[p]
                    g == plain.high[p]
                IN  IF "knob" \in DOMAIN h
                    THEN /\ "knob" \in DOMAIN g
                         /\ g.knob = [k |-> "None"]
                         /\ [h EXCEPT !.knob = g.knob] = g
                         /\ h.knob.k = IF FrameRegister(p) \in DOMAIN cmd.knobs
                                       THEN "Runtime" ELSE "None"
                    ELSE h = g
        IN  /\ plain.status = lk.result
            /\ Linked =>
                 (/\ Len(lk.high_ops) = Len(plain.high)
                  /\ \A p \in 1 .. Len(lk.high_ops) : SameButKnob(p)
                  /\ lk.functions[1].image_buffers
                       = [textures |-> plain.cur.textures,
                          buffers |-> plain.cur.buffers])

\* A buffer of two ops built through with_knob() was lowered, so that the
\* second of them draws under knob 1.
C18_Witness ==
    /\ Linked
    /\ \E p \in 1 .. Len(lk.high_ops) :
          /\ lk.high_ops[p].h = "DrawInto"
          /\ lk.high_ops[p].knob.k = "Runtime"
          /\ lk.high_ops[p].knob.knob = 1

(***************************************************************************)
(* The frames of a lowered entry function.                                 *)
(***************************************************************************)
\* The position of Done(reg) in the stream of a program of one function.
DonePosition(reg) ==
    CHOOSE q \in 1 .. Len(lk.high_ops) :
        lk.high_ops[q].h = "Done" /\ lk.high_ops[q].reg = reg

\* The texture the plan of the entry function assigned to register reg.
EntryTexture(reg) ==
    CHOOSE t \in 0 .. Len(lk.functions[1].image_buffers.textures) - 1 :
        lk.functions[1].image_buffers.textures[t + 1].register = reg

\* The region of the image of register reg of cmd.
Region(reg) ==
    RectWithLayout(Monomorphize(describe_reg(cmd, reg).desc, <<>>).layout)

SameQuad(a, b) ==
    /\ a.x = b.x /\ a.y = b.y
    /\ RectWidth(a) = RectWidth(b) /\ RectHeight(a) = RectHeight(b)

\* C21: an Inscribe op lowers, inside one frame, to PushOperand(below), a
\* DrawInto(Discard(out)) copying the whole lower region, PushOperand(above)
\* and a DrawInto(Load(out)) whose selection is the whole upper region, whose
\* viewport is the lower region and whose target is exactly the rectangle
\* passed to inscribe, which is the region of the above image.
C21_InscribeTargetIsPlacement ==
    (Linked /\ cmd.symbols = <<>>) =>
        \A i \in 1 .. Len(cmd.ops) :
            IsInscribe(cmd.ops[i]) =>
                LET q == DonePosition(i - 1)
                    out == EntryTexture(i - 1)
                    below == EntryTexture(cmd.ops[i].lhs)
                    above == EntryTexture(cmd.ops[i].rhs)
                    lower == Region(cmd.ops[i].lhs)
                    upper == Region(cmd.ops[i].rhs)
                    copy == lk.high_ops[q - 3]
                    draw == lk.high_ops[q - 1]
                IN  /\ q > 5
                    /\ lk.high_ops[q - 5].h = "StackPush"
                    /\ lk.high_ops[q - 4] = PushOperand(below)
                    /\ copy.h = "DrawInto" /\ copy.dst = Discard(out)
                    /\ copy.texture = below
                    /\ copy.selection = lower /\ copy.target = lower
                    /\ copy.viewport = lower
                    /\ lk.high_ops[q - 2] = PushOperand(above)
                    /\ draw.h = "DrawInto" /\ draw.dst = Load(out)
                    /\ draw.texture = above
                    /\ draw.selection = upper /\ draw.viewport = lower
                    /\ SameQuad(draw.target, upper)
                    /\ lk.high_ops[q + 1].h = "StackPop"

(***************************************************************************)
(* Linking a caller of functions of several arguments and results.         *)
(***************************************************************************)
\* PreludeInvoke with a fourth function, FnSink.
PreludeCall == function(PreludeInvoke, computed_signature(FnSink)).cmd

\* The command buffers linked as functions 1 to 4.
Callees == <<FnIdentity, FnGeneric, FnSwap, FnSink>>

\* The link lists of the entry: each declaration bound to the command buffer
\* it was computed from, or FnIdentity and FnSink bound to each other.
CallLinks == {<<1, 2, 3, 4>>, <<4, 2, 3, 1>>}

LinkCallees ==
    \E ty \in {DA, DS}, links \in CallLinks : Link(<<ty>>, Callees, <<links>>)

CallOps == 4

InitCall ==
    /\ cmd = PreludeCall
    /\ limit = Entries(cmd) + CallOps
    /\ last = NoCall
    /\ lk = LinkIdle
    /\ surface = NoSurface

NextCall ==
    \/ InvokeArguments \/ Observe
    \/ LinkCallees \/ LinkPop \/ LinkIn \/ LinkPush \/ LinkReturn

SpecCall == InitCall /\ [][NextCall]_vars

\* The command buffer the linked function f was lowered from.
FnCommand(f) == lk.mono.commands[lk.functions[f].of.link_idx + 1]

\* The positions of the ops of the linked function f.
FnRange(f) == lk.functions[f].ops[1] + 1 .. lk.functions[f].ops[2]

\* The position of Done(reg) among the ops of the linked function f.
FnDone(f, reg) ==
    CHOOSE q \in FnRange(f) :
        lk.high_ops[q].h = "Done" /\ lk.high_ops[q].reg = reg

\* The indices of the Invoke ops of command buffer c.
Invokes(c) == {i \in 1 .. Len(c.ops) : c.ops[i].kind = "Invoke"}

\* C22: for an Invoke with m arguments and n results the stream of the
\* caller holds one Uninit per result, in result order and before the Call,
\* and the image_io_buffers of the Call are the InTexture bindings of the m
\* arguments in argument order followed by the OutTexture bindings of the n
\* results in result order; no other Uninit is emitted.
C22_CallBindsArgumentsThenResults ==
    Linked =>
        \A f \in 1 .. Len(lk.functions) :
            LET c == FnCommand(f) IN
            /\ \A i \in Invokes(c) :
                  LET op == c.ops[i]
                      m == Len(op.arguments)
                      n == Len(op.results)
                      q == FnDone(f, i - 1)
                      call == lk.high_ops[q - 1]
                      Uninit(k) == FnDone(f, op.results[k]) - 1
                  IN  /\ call.h = "Call"
                      /\ Len(call.image_io_buffers) = m + n
                      /\ \A k \in 1 .. m :
                            /\ call.image_io_buffers[k].binding = "InTexture"
                            /\ call.image_io_buffers[k].register = op.arguments[k]
                      /\ \A k \in 1 .. n :
                            /\ call.image_io_buffers[m + k].binding = "OutTexture"
                            /\ call.image_io_buffers[m + k].register = op.results[k]
                            /\ lk.high_ops[Uninit(k)].h = "Uninit"
                            /\ Uninit(k) < q - 1
                            /\ k > 1 => Uninit(k - 1) < Uninit(k)
            /\ \A p \in FnRange(f) :
                  lk.high_ops[p].h = "Uninit" =>
                      \E i \in Invokes(c) :
                          \E k \in 1 .. Len(c.ops[i].results) :
                              p = FnDone(f, c.ops[i].results[k]) - 1

\* The linked entry invokes a function of two arguments and two results and
\* a function of one argument and no result.
C22_Witness ==
    /\ Linked
    /\ \E i, j \in Invokes(cmd) :
          /\ Len(cmd.ops[i].arguments) = 2 /\ Len(cmd.ops[i].results) = 2
          /\ Len(cmd.ops[j].arguments) = 1 /\ Len(cmd.ops[j].results) = 0

\* The number of ops of the given kind in command buffer c.
CountKind(c, kind) ==
    Cardinality({i \in 1 .. Len(c.ops) : c.ops[i].kind = kind})

\* C23: in every linked Program the image_io_buffers of each Call have the
\* length and the order of the signature_registers of the callee (its Input
\* registers, then its Output registers), and every function declaration
\* of a linked command buffer is bound to a command buffer with as many
\* inputs and outputs as the declaration.
C23_CallMatchesCalleeSignature ==
    Linked =>
        /\ \A s \in CallSites :
              \A f \in 1 .. Len(lk.functions) :
                  lk.functions[f].of = CalleeKey(s) =>
                      LET io == lk.high_ops[s[2]].image_io_buffers
                          regs == lk.functions[f].signature_registers
                          callee == FnCommand(f)
                      IN  /\ Len(io) = Len(regs)
                          /\ \A k \in 1 .. Len(io) :
                                (io[k].binding = "InTexture")
                                    <=> (callee.ops[regs[k] + 1].kind = "Input")
        /\ \A f \in 1 .. Len(lk.functions) :
              LET c == FnCommand(f)
                  links == LinkList(lk.functions[f].of.link_idx)
              IN  \A j \in 1 .. Len(c.symbols) :
                      LET bound == lk.mono.commands[links[j] + 1]
                      IN  /\ Len(c.symbols[j].input) = CountKind(bound, "Input")
                          /\ Len(c.symbols[j].output) = CountKind(bound, "Output")

\* The positions of the High ops of kind h in the op range of function f.
FnOps(f, h) == {q \in FnRange(f) : lk.high_ops[q].h = h}

\* C24: the op range of each linked function is the concatenation, in IR op
\* order, of one frame per IR op i: StackPush, the actions of the op,
\* Done(Register(i)), StackPop.  Frames are balanced and never nest, no op
\* lies outside a frame, and the Done registers strictly increase.
C24_OneFramePerOp ==
    Linked =>
        \A f \in 1 .. Len(lk.functions) :
            LET n == Len(FnCommand(f).ops)
                First(i) == IF i = 0 THEN lk.functions[f].ops[1] + 1
                            ELSE FnDone(f, i - 1) + 2
            IN  /\ Cardinality(FnOps(f, "StackPush")) = n
                /\ Cardinality(FnOps(f, "StackPop")) = n
                /\ Cardinality(FnOps(f, "Done")) = n
                /\ \A i \in 0 .. n - 1 :
                      /\ \E q \in FnOps(f, "Done") : lk.high_ops[q].reg = i
                      /\ First(i) < FnDone(f, i)
                      /\ lk.high_ops[First(i)].h = "StackPush"
                      /\ lk.high_ops[FnDone(f, i) + 1].h = "StackPop"
                /\ (n = 0 => FnRange(f) = {})
                /\ (n > 0 => FnDone(f, n - 1) + 1 = lk.functions[f].ops[2])

\* A program of two functions or more is linked, and one of its frames
\* holds more than one action.
C24_Witness ==
    /\ Linked
    /\ Len(lk.functions) >= 2
    /\ \E f \in 1 .. Len(lk.functions) :
          \E q \in FnOps(f, "Done") :
              lk.high_ops[q - 1].h # "StackPush" /\ lk.high_ops[q - 2].h # "StackPush"

\* link_in has lowered the op at lk.cur.idx of the current function, and it
\* was of one of the given kinds.
LoweredKind(kinds) ==
    /\ lk.phase = "linking"
    /\ lk.cur.active
    /\ lk'.phase = "linking"
    /\ lk'.cur.active
    /\ lk'.cur.idx = lk.cur.idx + 1
    /\ lk.mono.commands[lk.cur.link_idx + 1].ops[lk.cur.idx + 1].kind \in kinds

\* C25: lowering an Output or a Render op requests no texture from the plan
\* allocator: the resource plan of the function is the same before and
\* after the op is lowered.
C25_OutputLeavesPlanUnchanged ==
    [][LoweredKind({"Output", "Render"}) =>
          /\ lk'.cur.textures = lk.cur.textures
          /\ lk'.cur.buffers = lk.cur.buffers]_vars

(***************************************************************************)
(* Linking command buffers whose links are recursive.                      *)
(***************************************************************************)
\* fn<T>(image: T) -> T invoking its declared function at T.
RecGeneric ==
    LET c1 == input_generic(generic(EmptyBuffer).cmd, 0).cmd
        c2 == function(c1, computed_signature(FnGeneric)).cmd
        c3 == invoke(c2, 0, <<0>>, <<0>>).cmd
    IN  output(c3, 1).cmd

\* fn<T>(image: T, other: DS) invoking its declared function at DS.
RecGenericAt ==
    LET c1 == input(input_generic(generic(EmptyBuffer).cmd, 0).cmd, DS).cmd
        c2 == register_descriptor(c1, 1).cmd
        c3 == function(c2, computed_signature(FnGeneric)).cmd
        c4 == invoke(c3, 0, <<1>>, <<1>>).cmd
    IN  output(c4, 2).cmd

\* The entry: r0 : DA, r1 : DS with their descriptor variables, and the
\* declarations fn(DA) -> DA and fn<T>(T) -> T.
PreludeRecursion ==
    LET c1 == input(input(EmptyBuffer, DA).cmd, DS).cmd
        c2 == register_descriptor(register_descriptor(c1, 0).cmd, 1).cmd
        c3 == function(c2, computed_signature(FnIdentity)).cmd
    IN  function(c3, computed_signature(FnGeneric)).cmd

\* The command buffers 1 .. 4 handed to link next to the entry.
RecursiveFunctions == <<ProgCallOne, ProgCallOne, RecGeneric, RecGenericAt>>

\* Link maps: the entry calls itself, a function calls itself, two
\* functions call each other, a generic function calls itself at its own
\* or at another type argument, or calls the entry.
RecursiveLinks ==
    {<<<<0, 3>>, <<1>>, <<2>>, <<3>>, <<4>>>>,
     <<<<1, 3>>, <<1>>, <<2>>, <<3>>, <<4>>>>,
     <<<<1, 4>>, <<2>>, <<1>>, <<4>>, <<3>>>>,
     <<<<2, 4>>, <<2>>, <<1>>, <<3>>, <<4>>>>,
     <<<<2, 3>>, <<1>>, <<0>>, <<0>>, <<3>>>>}

LinkRecursive ==
    \E links \in RecursiveLinks : Link(<<>>, RecursiveFunctions, links)

\* The buffers that one more call of invoke can make of c: c itself when
\* the call fails.
InvokeAll(c) ==
    {invoke(c, f, generics, arguments).cmd :
        f \in 0 .. Len(c.symbols) - 1,
        generics \in UpToTwo(0 .. Len(c.tys) - 1),
        arguments \in UpToTwo(Registers(c))}

RecursionOps == 2

RECURSIVE InvokeTimes(_, _)
InvokeTimes(c, n) ==
    IF n = 0 THEN {c}
    ELSE UNION {InvokeAll(d) : d \in InvokeTimes(c, n - 1)}

InitRecursion ==
    /\ cmd \in InvokeTimes(PreludeRecursion, RecursionOps)
    /\ limit = Entries(cmd)
    /\ last = NoCall
    /\ lk = LinkIdle
    /\ surface = NoSurface

NextRecursion ==
    \/ LinkRecursive
    \/ LinkPop
    \/ LinkIn
    \/ LinkPush
    \/ LinkReturn

\* link is one sequential call: once entered, its loops keep running until
\* it returns.
SpecRecursion ==
    /\ InitRecursion
    /\ [][NextRecursion]_vars
    /\ WF_lk(LinkPop)
    /\ WF_lk(LinkIn)
    /\ WF_lk(LinkPush)
    /\ WF_lk(LinkReturn)

\* The keys recorded in `monomorphic`, one per push on the work stack.
PushedKeys == [i \in 1 .. Len(lk.mono.monomorphic) |-> lk.mono.monomorphic[i].sig]

NoDuplicate(seq) ==
    \A i, j \in 1 .. Len(seq) : seq[i] = seq[j] => i = j

\* C26: link terminates for every set of command buffers and every link
\* map, recursive ones included: each key (link_idx, type arguments) is
\* pushed on the work stack at most once, and a link that was entered
\* eventually returns.
C26_LinkTerminates ==
    /\ [](lk.phase = "linking" =>
            /\ NoDuplicate(PushedKeys)
            /\ NoDuplicate(lk.mono.stack))
    /\ (lk.phase = "linking") ~> (lk.phase = "done")

\* A program was linked in which a function was requested again while it
\* was being lowered or after it: more Calls than functions.
C26_Witness ==
    /\ Linked
    /\ Len(lk.functions) >= 3
    /\ Cardinality({q \in 1 .. Len(lk.high_ops) : lk.high_ops[q].h = "Call"})
          > Len(lk.functions)

\* The textures the plan of function f assigned to register r, one per
\* request made for it.
AssignedTo(f, r) ==
    LET textures == lk.functions[f].image_buffers.textures
    IN  {t \in 0 .. Len(textures) - 1 : textures[t + 1].register = r}

\* The texture of the Uninit with which register r of function f was
\* defined, when it is the result of an invocation.
UninitTexture(f, r) == lk.high_ops[FnDone(f, r) - 1].dst.texture

\* C27: each register of a function is assigned exactly one texture: the
\* plan holds one assignment per register, and the texture named in a
\* binding of a Call is the one assigned to the register when it was
\* defined, for a result the texture of its Uninit.
C27_OneTexturePerRegister ==
    Linked =>
        \A f \in 1 .. Len(lk.functions) :
            /\ \A r \in Registers(FnCommand(f)) : Cardinality(AssignedTo(f, r)) <= 1
            /\ \A q \in FnOps(f, "Call") :
                  \A k \in 1 .. Len(lk.high_ops[q].image_io_buffers) :
                      LET b == lk.high_ops[q].image_io_buffers[k]
                      IN  /\ AssignedTo(f, b.register) = {b.texture}
                          /\ (FnCommand(f).ops[b.register + 1].kind = "InvokedResult"
                                => UninitTexture(f, b.register) = b.texture)

\* The High ops at q and p, q before p, belong to one frame.
SameFrame(q, p) ==
    q < p /\ \A m \in q + 1 .. p : lk.high_ops[m].h # "StackPush"

\* C28: in every linked function a DrawInto with Target::Load(t) comes after
\* an op of its own frame that defined t with Target::Discard(t): no op
\* lowers to a Load draw into a texture that was never written.
C28_LoadFollowsDiscard ==
    Linked =>
        \A p \in DrawIntos :
            lk.high_ops[p].dst.t = "Load" =>
                \E q \in DrawIntos :
                    /\ SameFrame(q, p)
                    /\ lk.high_ops[q].dst = Discard(lk.high_ops[p].dst.texture)

\* link_in is about to lower an op of one of the given kinds that has no
\* knob.
AboutToLower(kinds) ==
    /\ lk.phase = "linking"
    /\ lk.cur.active
    /\ lk.cur.idx < Len(lk.mono.commands[lk.cur.link_idx + 1].ops)
    /\ lk.mono.commands[lk.cur.link_idx + 1].ops[lk.cur.idx + 1].kind \in kinds
    /\ lk.cur.idx \notin DOMAIN lk.mono.commands[lk.cur.link_idx + 1].knobs

\* C29: every op a successful builder call appends is lowered by link: the
\* ops of buffer_from_image (BufferUnary) and buffer_overlay (BufferBinary)
\* do not make link fail, and the register they define receives a buffer
\* assignment.
C29_BufferOpsAreLowered ==
    [][AboutToLower({"BufferUnary", "BufferBinary"}) =>
          /\ lk'.phase = "linking"
          /\ \E b \in 1 .. Len(lk'.cur.buffers) :
                lk'.cur.buffers[b].register = lk.cur.idx]_lk

(***************************************************************************)
(* The editor's Surface (bin/dioxus-editor): the image it presents, the    *)
(* descriptor of the window surface and the cached normalizing executable. *)
(***************************************************************************)
\* Runtimes::default(): no normalizing executable.
NoNormalizing == [some |-> FALSE]

\* The texel of image::DynamicImage::new_rgba16.
RgbA16 == Texel("Int16x4", "RgbA")

\* Descriptor::with_srgb_image of the empty image presented while booting.
EmptyImage == WithTexel(RgbA16, "Srgb", 0, 0)

\* The descriptors of the images handed to set_image.
PresentedImages == {DA, DS, DC}

\* The widths and heights of the canvas.
CanvasMax == 2

CanvasSizes == (1 .. CanvasMax) \X (1 .. CanvasMax)

\* Option::get_or_insert: the value is stored only when the option is None.
OptionGetOrInsert(option, value) == IF option.some THEN option ELSE value

\* Runtimes::get_or_insert_normalizing_exe: the executable returned and the
\* cache afterwards.  The program is built with the builders; lower_to is
\* taken to succeed on what compile() returns.
get_or_insert_normalizing_exe(normalizing, in_desc, surface_desc) ==
    IF /\ normalizing.some
       /\ in_desc = normalizing.in_descriptor
       /\ surface_desc = normalizing.out_descriptor
    THEN [status |-> "Ok", exe |-> normalizing, normalizing |-> normalizing]
    ELSE
    LET failed == [status |-> "Err", exe |-> NoNormalizing,
                   normalizing |-> normalizing]
        in_reg == input(EmptyBuffer, in_desc)
    IN  IF in_reg.err # "Ok" THEN failed
        ELSE LET resized == resize(in_reg.cmd, in_reg.val, DescriptorSize(surface_desc))
        IN  IF resized.err # "Ok" THEN failed
        ELSE LET converted == color_convert(resized.cmd, resized.val,
                                            surface_desc.color, surface_desc.texel)
        IN  IF converted.err # "Ok" THEN failed
        ELSE LET out_reg == render(converted.cmd, converted.val)
        IN  IF out_reg.err # "Ok" THEN failed
        ELSE IF CompileEntry(out_reg.cmd).status # "Ok" THEN failed
        ELSE LET built == [some |-> TRUE, exe |-> out_reg.cmd,
                            in_descriptor |-> in_desc,
                            out_descriptor |-> surface_desc,
                            in_reg |-> in_reg.val,
                            out_reg |-> out_reg.val.register]
                 held == OptionGetOrInsert(normalizing, built)
             IN  [status |-> "Ok", exe |-> held, normalizing |-> held]

\* Surface::new on a canvas of the given size: the surface is declared and
\* reconfigured, the empty image is the one presented.
SurfaceNew(size) ==
    [created |-> TRUE,
     presentable |-> EmptyImage,
     surface_desc |-> WithTexel(RgbA8, "Srgb", size[1], size[2]),
     normalizing |-> NoNormalizing,
     returned |-> [status |-> "None"]]

\* Surface::set_image: the presented image takes the descriptor of the
\* uploaded one.
SetImage ==
    /\ surface.created
    /\ \E image \in PresentedImages :
          surface' = [surface EXCEPT !.presentable = image]
    /\ UNCHANGED <<cmd, limit, last, lk>>

\* Surface::lost and Surface::outdated, that is reconfigure_surface: the
\* surface is declared anew at the size of the canvas and the cached
\* executable is dropped.
ReconfigureSurface ==
    /\ surface.created
    /\ \E size \in CanvasSizes :
          surface' = [surface EXCEPT
              !.surface_desc = WithTexel(@.texel, @.color, size[1], size[2]),
              !.normalizing = NoNormalizing]
    /\ UNCHANGED <<cmd, limit, last, lk>>

\* Surface::present_to_texture up to the executable it runs: the one that
\* get_or_insert_normalizing_exe returns for the descriptors of the
\* presented image and of the surface.
PresentToTexture ==
    /\ surface.created
    /\ LET got == get_or_insert_normalizing_exe(surface.normalizing,
                      surface.presentable, surface.surface_desc)
       IN  surface' = [surface EXCEPT
               !.normalizing = got.normalizing,
               !.returned = [status |-> got.status,
                             input |-> surface.presentable,
                             surface |-> surface.surface_desc,
                             exe |-> got.exe]]
    /\ UNCHANGED <<cmd, limit, last, lk>>

InitSurface ==
    /\ cmd = EmptyBuffer
    /\ limit = 0
    /\ last = NoCall
    /\ lk = LinkIdle
    /\ \E size \in CanvasSizes : surface = SurfaceNew(size)

NextSurface == SetImage \/ ReconfigureSurface \/ PresentToTexture

SpecSurface == InitSurface /\ [][NextSurface]_vars

\* C30: whatever the surface reconfigurations and the changes of the
\* presented image, the executable get_or_insert_normalizing_exe returns
\* has in_descriptor = input and out_descriptor = surface, and while the
\* descriptors stay the ones of the call the cache holds that executable.
C30_NormalizingMatchesDescriptors ==
    (surface.created /\ surface.returned.status = "Ok") =>
        /\ surface.returned.exe.in_descriptor = surface.returned.input
        /\ surface.returned.exe.out_descriptor = surface.returned.surface
        /\ (/\ surface.normalizing.some
            /\ surface.presentable = surface.returned.input
            /\ surface.surface_desc = surface.returned.surface)
              => surface.normalizing = surface.returned.exe

====
